---- MODULE Spec2Model ----
(***************************************************************************)
(* Model of the comic export service: the POST /export handler, the job    *)
(* queue (ExportQueue with a concurrency limit, and the single-slot        *)
(* exportQueue/isProcessing/processQueue variant), the export job body and *)
(* the page/cover ordering of generateCBZ and generatePDF, the entry by    *)
(* entry assembly, and the in-memory file store (exportFiles) with its     *)
(* download and cleanup endpoints.                                         *)
(*                                                                         *)
(* Every action is one run-to-completion turn of the Node.js event loop:   *)
(* a handler or a promise continuation runs without interleaving until its *)
(* next await.  The variable `variant` says which server file is running:  *)
(*   "pool"   src/unnamed/part_002 (class ExportQueue, upload to Supabase) *)
(*   "single" src/index.js lines 216-551 (array + isProcessing flag)       *)
(***************************************************************************)
EXTENDS Integers, Sequences, FiniteSets, Bags, TLC

\* ------------------------------------------------------------------ bounds
\* requests received by POST /export in one run
MaxJobs == 3
\* largest concurrency limit an ExportQueue is built with
MaxLimit == 2
\* longest page list of a detailed job description
MaxPages == 3
\* largest page number of a detailed job description
MaxPageNum == 2
\* requests received by the servers with a file store in one run
MaxStoreJobs == 2
\* largest reading of the clock (Date.now()), in units of the expiry horizon's scale
MaxClock == 2

\* the expiry horizon of a stored file, 24 * 60 * 60 * 1000 ms, as one clock unit
ExpiryHorizon == 1

Jobs == 1..MaxJobs

VARIABLES
    variant,        \* "pool" | "single": the server file that is running
    maxConcurrent,  \* ExportQueue.maxConcurrent
    queue,          \* ExportQueue.queue / exportQueue: waiting jobs, head first
    running,        \* ExportQueue.running
    isProcessing,   \* isProcessing flag of the single-slot variant
    nsub,           \* number of POST /export requests received so far
    req,            \* req[j]: the body of request j
    pc,             \* pc[j]: where request / job j stands
    events,         \* events[j]: what was sent for j (response, notifier calls), in order
    position,       \* position[j]: the queuePosition the response to j carried (0: none)
    started,        \* job ids in the order their bodies were started
    result,         \* result[j]: how the queue saw job()'s promise settle
    emitted,        \* emitted[j]: entries appended to job j's archive / document so far
    fetching,       \* fetching[j]: the entries of job j whose download is in flight
    failure,        \* failure[j]: what the error reported as 'failed' came from
    uploads,        \* the jobs uploadToSupabase was called for
    exportFiles,    \* the exportFiles map, as the set of its values with their tokens
    now,            \* what Date.now() reads
    response,       \* the last GET /download/:token exchange
    served,         \* the tokens GET /download/:token has answered with their file
    calls,          \* calls[j]: the calls job j's body has made so far
    ADMIN_KEY,      \* process.env.ADMIN_KEY of the server with POST /clear-files
    clearReply,     \* the last answer of POST /clear-files
    notifyErrors,   \* notifyErrors[j]: the statuses whose updateExportStatus call failed
    refStore        \* the reference store: what a store that drops each file at the
                    \* instant it passes its expiry horizon would hold

vars == <<variant, maxConcurrent, queue, running, isProcessing, nsub, req, pc,
          events, position, started, result, emitted, fetching, failure, uploads,
          exportFiles, now, response, served, calls, refStore, notifyErrors,
          ADMIN_KEY, clearReply>>

storeVars == <<exportFiles, now, response, served, refStore>>

\* ------------------------------------------------------- request bodies
\* image sources; a missing (undefined) one is NoUrl
NoUrl == <<>>
ComicUrl == <<"comic_cover">>
ChapterUrl == <<"chapter_cover">>
BackUrl == <<"back_cover">>
\* the image_url of the i-th item of the page list (distinct per item)
PageUrl(i) == <<"page", i>>

NoCovers == [comic_cover |-> NoUrl, chapter_cover |-> NoUrl, back_cover |-> NoUrl]

CoverSets == [comic_cover : {NoUrl, ComicUrl},
              chapter_cover : {NoUrl, ChapterUrl},
              back_cover : {NoUrl, BackUrl}]

\* a page list whose page numbers are nums, in that order
PageList(nums) == [i \in 1..Len(nums) |-> [page_number |-> nums[i], image_url |-> PageUrl(i)]]

PageNumLists == UNION {[1..n -> 0..MaxPageNum] : n \in 0..MaxPages}

\* job identifiers; a missing (undefined) exportId is NoId
NoId == ""
ExportIds == {"e1", "e2"}

\* comic names, as the classes of their characters: "latin1" is a character a
\* header value may hold, "wide" a code point above U+00FF
PlainName == <<"latin1">>
WideName == <<"latin1", "wide">>

\* the callback_url of a longstrip request
CallbackUrl == <<"callback">>

\* req.body of POST /export; route is the endpoint the body was posted to
Request(id, fmt, hasPages, nums, cov) ==
    [exportId |-> id, comicName |-> PlainName, format |-> fmt, hasPages |-> hasPages,
     pages |-> PageList(nums), covers |-> cov, route |-> "export", callbackUrl |-> NoUrl]

\* req.body of POST /export-longstrip: export_id, panels (kept in the fields
\* hasPages and pages) and callback_url; the artifact is a jpg
LongstripRequest(id, hasPanels, nums, cb) ==
    [exportId |-> id, comicName |-> PlainName, format |-> "jpg", hasPages |-> hasPanels,
     pages |-> PageList(nums), covers |-> NoCovers, route |-> "longstrip",
     callbackUrl |-> cb]

NoReq == Request(NoId, "none", FALSE, <<>>, NoCovers)

\* the request bodies the queue specification draws from: a well-formed one-page
\* job, and one body for each way a field can be missing
QueueRequests ==
    { Request("e1", "cbz", TRUE, <<1>>, NoCovers),
      Request(NoId, "cbz", TRUE, <<1>>, NoCovers),
      Request("e1", "cbz", FALSE, <<>>, NoCovers),
      Request("e1", "pdf", TRUE, <<>>, NoCovers),
      Request("e1", "none", TRUE, <<1>>, NoCovers) }

\* the request bodies the assembly specification draws from
AsmRequests ==
    { Request(id, fmt, TRUE, nums, cov) :
        id \in {NoId, "e1"}, fmt \in {"cbz", "pdf"}, nums \in PageNumLists, cov \in CoverSets }
    \cup { Request("e1", fmt, FALSE, <<>>, cov) : fmt \in {"cbz", "pdf"}, cov \in CoverSets }

\* ------------------------------------------------- page / cover ordering
\* one archive member or document page: its sequence index (the numeric prefix of
\* the member name, or the page's position in the document), its label, the page
\* number in the member name (0 for a cover) and the image source it is built from
Entry(i, lbl, n, u) == [index |-> i, label |-> lbl, num |-> n, src |-> u]

\* pages.find(p => p.page_number === 0): position of the first such item, 0 if none
RECURSIVE FindPage0(_, _)
FindPage0(pages, i) ==
    IF i > Len(pages) THEN 0
    ELSE IF pages[i].page_number = 0 THEN i
    ELSE FindPage0(pages, i + 1)

\* one step of the stable sort by page_number: p goes after every item whose
\* page_number is <= its own
RECURSIVE InsertByNumber(_, _)
InsertByNumber(p, s) ==
    IF s = <<>> THEN <<p>>
    ELSE IF Head(s).page_number <= p.page_number
         THEN <<Head(s)>> \o InsertByNumber(p, Tail(s))
         ELSE <<p>> \o s

\* Array.prototype.sort((a, b) => a.page_number - b.page_number), which is stable
RECURSIVE SortByPageNumber(_)
SortByPageNumber(s) ==
    IF s = <<>> THEN <<>>
    ELSE InsertByNumber(s[Len(s)], SortByPageNumber(SubSeq(s, 1, Len(s) - 1)))

IsRegularPage(p) == p.page_number > 0 /\ p.image_url # NoUrl

\* the mutant: the regular pages are left in the order of the request
RegularPagesUnsorted(pages) == SelectSeq(pages, IsRegularPage)

\* pages.filter(p => p.page_number > 0 && p.image_url).sort(...)
RegularPages(pages) == SortByPageNumber(SelectSeq(pages, IsRegularPage))

\* the mutant: page 0 is taken as the chapter cover whatever covers.chapter_cover is
UsePage0Always(pages, covers) ==
    /\ FindPage0(pages, 1) # 0
    /\ pages[FindPage0(pages, 1)].image_url # NoUrl

\* page0 && page0.image_url && !covers.chapter_cover
UsePage0(pages, covers) ==
    /\ FindPage0(pages, 1) # 0
    /\ pages[FindPage0(pages, 1)].image_url # NoUrl
    /\ covers.chapter_cover = NoUrl

\* the regular pages appended one by one with the running fileIndex
RECURSIVE AppendPages(_, _, _)
AppendPages(sofar, ps, lbl) ==
    IF ps = <<>> THEN sofar
    ELSE AppendPages(Append(sofar, Entry(Len(sofar), lbl, Head(ps).page_number,
                                         Head(ps).image_url)),
                     Tail(ps), lbl)

\* generateCBZ of part_002: the members appended when every download succeeds
generateCBZ(pages, covers) ==
    LET a == IF covers.comic_cover # NoUrl
             THEN <<Entry(0, "comic_cover", 0, covers.comic_cover)>>
             ELSE <<>>
        b == IF covers.chapter_cover # NoUrl
             THEN Append(a, Entry(Len(a), "chapter_cover", 0, covers.chapter_cover))
             ELSE a
        c == IF UsePage0(pages, covers)
             THEN Append(b, Entry(Len(b), "chapter_cover", 0,
                                  pages[FindPage0(pages, 1)].image_url))
             ELSE b
        d == AppendPages(c, RegularPages(pages), "page")
    IN  IF covers.back_cover # NoUrl
        THEN Append(d, Entry(Len(d), "back_cover", 0, covers.back_cover))
        ELSE d

\* generatePDF of part_002: the pages added when every download succeeds
generatePDF(pages, covers) ==
    LET a == IF covers.comic_cover # NoUrl
             THEN <<Entry(0, "Comic cover", 0, covers.comic_cover)>>
             ELSE <<>>
        b == IF covers.chapter_cover # NoUrl
             THEN Append(a, Entry(Len(a), "Chapter cover", 0, covers.chapter_cover))
             ELSE IF UsePage0(pages, covers)
             THEN Append(a, Entry(Len(a), "Page 0 (chapter cover)", 0,
                                  pages[FindPage0(pages, 1)].image_url))
             ELSE a
        d == AppendPages(b, RegularPages(pages), "Page")
    IN  IF covers.back_cover # NoUrl
        THEN Append(d, Entry(Len(d), "Back cover", 0, covers.back_cover))
        ELSE d

\* for (const page of pages) { if (page.page_number === 0) continue; ... }
RECURSIVE AppendPagesInOrder(_, _, _)
AppendPagesInOrder(sofar, ps, fileIndex) ==
    IF ps = <<>> THEN sofar
    ELSE IF Head(ps).page_number = 0
         THEN AppendPagesInOrder(sofar, Tail(ps), fileIndex)
         ELSE AppendPagesInOrder(
                  Append(sofar, Entry(fileIndex, "page", Head(ps).page_number,
                                      Head(ps).image_url)),
                  Tail(ps), fileIndex + 1)

\* generateCBZ of index.js: the cover members carry the literal prefixes 000 and
\* 001, the pages and the back cover the running fileIndex
generateCBZ_index(pages, covers) ==
    LET a == IF covers.comic_cover # NoUrl
             THEN <<Entry(0, "cover", 0, covers.comic_cover)>>
             ELSE <<>>
        b == IF covers.chapter_cover # NoUrl
             THEN Append(a, Entry(1, "chapter", 0, covers.chapter_cover))
             ELSE a
        d == AppendPagesInOrder(b, pages, Len(b))
    IN  IF covers.back_cover # NoUrl
        THEN Append(d, Entry(Len(d), "back", 0, covers.back_cover))
        ELSE d

\* the document pages of generatePDF of index.js, numbered by position
RECURSIVE Renumber(_, _)
Renumber(s, from) ==
    IF s = <<>> THEN <<>>
    ELSE <<[Head(s) EXCEPT !.index = from]>> \o Renumber(Tail(s), from + 1)

\* generatePDF of index.js: the pages added when every download succeeds
generatePDF_index(pages, covers) ==
    LET a == IF covers.comic_cover # NoUrl
             THEN <<Entry(0, "cover", 0, covers.comic_cover)>>
             ELSE <<>>
        b == IF covers.chapter_cover # NoUrl
             THEN Append(a, Entry(Len(a), "chapter", 0, covers.chapter_cover))
             ELSE a
        d == Renumber(AppendPagesInOrder(b, pages, Len(b)), 0)
    IN  IF covers.back_cover # NoUrl
        THEN Append(d, Entry(Len(d), "back", 0, covers.back_cover))
        ELSE d

\* what the job body of variant v builds for request r when nothing fails:
\* part_002 builds a CBZ for format 'cbz' and a PDF for anything else
FullPlan(v, r) ==
    IF v = "pool"
    THEN IF r.format = "cbz" THEN generateCBZ(r.pages, r.covers)
                             ELSE generatePDF(r.pages, r.covers)
    ELSE IF r.format = "cbz" THEN generateCBZ_index(r.pages, r.covers)
                             ELSE generatePDF_index(r.pages, r.covers)

\* the assembly throws by itself: pages is undefined (a TypeError where the page
\* list is first used), or index.js is given a format it does not support
PlanThrows(v, r) ==
    \/ ~r.hasPages
    \/ v = "single" /\ r.format \notin {"cbz", "pdf"}

\* the entries appended before the assembly ends or throws: with pages undefined,
\* the covers handled before the page list is first touched
Plan(v, r) ==
    IF v = "single" /\ r.format \notin {"cbz", "pdf"} THEN <<>>
    ELSE IF r.hasPages THEN FullPlan(v, r)
    ELSE IF v = "pool" /\ r.format # "cbz" THEN <<>>
    ELSE SubSeq(FullPlan(v, r), 1,
                Len(FullPlan(v, r)) - (IF r.covers.back_cover # NoUrl THEN 1 ELSE 0))

\* ------------------------------------------------------------ the queue
\* POST /export of part_002: !exportId || !pages || pages.length === 0 is answered 400
ValidRequest(r) == ~(r.exportId = NoId \/ ~r.hasPages \/ Len(r.pages) = 0)

\* the mutant: the limit test lets one job too many in
SlotBusyOffByOne(run) == run > maxConcurrent

\* the mutant: the limit test keeps one slot free
SlotBusyKeepsOneFree(run) == run + 1 >= maxConcurrent

\* ExportQueue.process: this.running >= this.maxConcurrent
SlotBusy(run) == run >= maxConcurrent

\* the mutant: the newest waiting job is taken (pop instead of shift)
NextJobNewest(q) == q[Len(q)]

\* the job that queue.shift() returns
NextJob(q) == Head(q)

\* the mutant: the job is read but left in the queue
DequeueKeeps(q) == q

\* the queue that queue.shift() leaves
Dequeue(q) == Tail(q)

\* the mutant: the position counts the running jobs as well
QueuePositionCountsRunning(q) == Len(q) + running + 1

\* queuePosition: queueStatus.queued + 1 / exportQueue.length + 1, read before the
\* job is pushed
QueuePosition(q) == Len(q) + 1

\* the mutant: the response waits for the job (it is not sent by the handler's turn)
RespondDeferred(evv, j) == evv

\* res.json({ success: true, message: 'Export queued', exportId, queuePosition })
Respond(evv, j) == [evv EXCEPT ![j] = Append(@, "ack")]

\* job() / task() is called: the body runs to its first await.  That of POST
\* /export is the call of updateExportStatus(exportId, 'processing'); that of POST
\* /export-longstrip is the download of the first panel in generateLongstrip (no
\* callback is sent at the start)
StartJob(q, pcv, evv) ==
    /\ queue' = Dequeue(q)
    /\ IF req'[NextJob(q)].route = "longstrip"
       THEN /\ pc' = [pcv EXCEPT ![NextJob(q)] = "generating"]
            /\ events' = [evv EXCEPT ![NextJob(q)] = Append(@, "start")]
       ELSE /\ pc' = [pcv EXCEPT ![NextJob(q)] = "processing"]
            /\ events' = [evv EXCEPT ![NextJob(q)] = @ \o <<"start", "processing">>]
    /\ started' = Append(started, NextJob(q))

\* process() / processQueue() returns at its guard
NoStart(q, pcv, evv) ==
    /\ queue' = q
    /\ pc' = pcv
    /\ events' = evv
    /\ started' = started

\* the mutant: processQueue() starts a task without raising its flag
ProcessFlagNotSet(q, run, busy, pcv, evv) ==
    IF variant = "pool"
    THEN /\ isProcessing' = busy
         /\ IF SlotBusy(run) \/ Len(q) = 0
            THEN running' = run /\ NoStart(q, pcv, evv)
            ELSE running' = run + 1 /\ StartJob(q, pcv, evv)
    ELSE /\ running' = run
         /\ isProcessing' = busy
         /\ IF busy \/ Len(q) = 0
            THEN NoStart(q, pcv, evv)
            ELSE StartJob(q, pcv, evv)

\* the mutant: a job is started without being counted (no running++)
ProcessSkipsCount(q, run, busy, pcv, evv) ==
    IF variant = "pool"
    THEN /\ isProcessing' = busy
         /\ running' = run
         /\ IF SlotBusy(run) \/ Len(q) = 0
            THEN NoStart(q, pcv, evv)
            ELSE StartJob(q, pcv, evv)
    ELSE /\ running' = run
         /\ IF busy \/ Len(q) = 0
            THEN isProcessing' = busy /\ NoStart(q, pcv, evv)
            ELSE isProcessing' = TRUE /\ StartJob(q, pcv, evv)

\* ExportQueue.process() up to its await, and processQueue() up to its await, run
\* on queue q, counter run and flag busy
Process(q, run, busy, pcv, evv) ==
    IF variant = "pool"
    THEN /\ isProcessing' = busy
         /\ IF SlotBusy(run) \/ Len(q) = 0
            THEN running' = run /\ NoStart(q, pcv, evv)
            ELSE running' = run + 1 /\ StartJob(q, pcv, evv)
    ELSE /\ running' = run
         /\ IF busy \/ Len(q) = 0
            THEN isProcessing' = busy /\ NoStart(q, pcv, evv)
            ELSE isProcessing' = TRUE /\ StartJob(q, pcv, evv)

\* POST /export with body r.  part_002 validates, answers and calls
\* exportQueue.add(job); index.js reads format.toUpperCase() (a TypeError when
\* format is missing: the handler ends without an answer), answers, pushes the
\* task and calls processQueue()
ExportHandler(r) ==
    /\ nsub' = nsub + 1
    /\ req' = [req EXCEPT ![nsub + 1] = r]
    /\ IF variant = "pool" /\ ~ValidRequest(r)
       THEN /\ pc' = [pc EXCEPT ![nsub + 1] = "rejected"]
            /\ events' = [events EXCEPT ![nsub + 1] = <<"reject">>]
            /\ UNCHANGED <<queue, running, isProcessing, started, position>>
       ELSE IF variant = "single" /\ r.format = "none"
       THEN /\ pc' = [pc EXCEPT ![nsub + 1] = "crashed"]
            /\ UNCHANGED <<queue, running, isProcessing, started, events, position>>
       ELSE /\ position' = [position EXCEPT ![nsub + 1] = QueuePosition(queue)]
            /\ Process(Append(queue, nsub + 1), running, isProcessing,
                       [pc EXCEPT ![nsub + 1] = "queued"], Respond(events, nsub + 1))
    /\ UNCHANGED <<variant, maxConcurrent, ADMIN_KEY, clearReply, notifyErrors, calls,
                   result, emitted, fetching, failure, uploads>>
    /\ UNCHANGED storeVars

\* the validation of POST /export-longstrip: !export_id, !panels ||
\* panels.length === 0, !callback_url are answered 400
ValidLongstrip(r) ==
    ~(r.exportId = NoId \/ ~r.hasPages \/ Len(r.pages) = 0 \/ r.callbackUrl = NoUrl)

\* the mutant: longstrip jobs do not go through the export queue; the body is
\* called at once and no slot is counted for it
LongstripHandlerOwnQueue(r) ==
    /\ variant = "pool"
    /\ nsub' = nsub + 1
    /\ req' = [req EXCEPT ![nsub + 1] = r]
    /\ IF ~ValidLongstrip(r)
       THEN /\ pc' = [pc EXCEPT ![nsub + 1] = "rejected"]
            /\ events' = [events EXCEPT ![nsub + 1] = <<"reject">>]
            /\ UNCHANGED <<started, position>>
       ELSE /\ position' = [position EXCEPT ![nsub + 1] = QueuePosition(queue)]
            /\ pc' = [pc EXCEPT ![nsub + 1] = "generating"]
            /\ events' = [events EXCEPT ![nsub + 1] = <<"ack", "start">>]
            /\ started' = Append(started, nsub + 1)
    /\ UNCHANGED <<variant, maxConcurrent, ADMIN_KEY, clearReply, notifyErrors, calls,
                   queue, running, isProcessing, result, emitted, fetching, failure,
                   uploads>>
    /\ UNCHANGED storeVars

\* POST /export-longstrip of part_002 with body r: it validates, answers with the
\* queue position and calls exportQueue.add(job) on the queue POST /export uses
LongstripHandler(r) ==
    /\ variant = "pool"
    /\ nsub' = nsub + 1
    /\ req' = [req EXCEPT ![nsub + 1] = r]
    /\ IF ~ValidLongstrip(r)
       THEN /\ pc' = [pc EXCEPT ![nsub + 1] = "rejected"]
            /\ events' = [events EXCEPT ![nsub + 1] = <<"reject">>]
            /\ UNCHANGED <<queue, running, isProcessing, started, position>>
       ELSE /\ position' = [position EXCEPT ![nsub + 1] = QueuePosition(queue)]
            /\ Process(Append(queue, nsub + 1), running, isProcessing,
                       [pc EXCEPT ![nsub + 1] = "queued"], Respond(events, nsub + 1))
    /\ UNCHANGED <<variant, maxConcurrent, ADMIN_KEY, clearReply, notifyErrors, calls,
                   result, emitted, fetching, failure, uploads>>
    /\ UNCHANGED storeVars

\* --------------------------------------------------- the artifact store
\* downloadToken = `${exportId}_${Date.now()}` for the clock reading t
Token(id, t) == <<id, t>>

\* fileExtension and mimeType of the job body
FileExtension(fmt) == IF fmt = "cbz" THEN "cbz" ELSE "pdf"

MimeType(fmt) == IF fmt = "cbz" THEN "application/zip" ELSE "application/pdf"

\* fileName: `${comicName}_Ch${chapterNumber}_${compression}.${fileExtension}`
FileName(r) == [name |-> r.comicName, ext |-> FileExtension(r.format)]

\* the value exportFiles.set stores for job j with request r at clock reading t;
\* buffer is the fileBuffer job j's assembly returned
FileData(j, r, t) ==
    [token |-> Token(r.exportId, t), buffer |-> j, mimeType |-> MimeType(r.format),
     fileName |-> FileName(r), createdAt |-> t]

\* what exportFiles.get returns for a token the map does not hold (undefined)
NoFile ==
    [token |-> <<>>, buffer |-> 0, mimeType |-> "", fileName |-> [name |-> <<>>, ext |-> ""],
     createdAt |-> 0]

\* Map.prototype.set: the value stored under the token is replaced
MapSet(files, d) == {e \in files : e.token # d.token} \cup {d}

\* Map.prototype.get
MapGet(files, t) ==
    IF \E e \in files : e.token = t THEN CHOOSE e \in files : e.token = t ELSE NoFile

\* the mutant: a delete that does not find its key frees another entry instead
MapDeleteOther(files, t) ==
    IF \E e \in files : e.token = t THEN {e \in files : e.token # t}
    ELSE IF files = {} THEN files
    ELSE files \ {CHOOSE e \in files : TRUE}

\* Map.prototype.delete: a key the map does not hold is no error (it returns false)
MapDelete(files, t) == {e \in files : e.token # t}

\* now - data.createdAt > 24 * 60 * 60 * 1000
Expired(d, t) == t - d.createdAt > ExpiryHorizon

\* for (const [key, data] of exportFiles.entries()) if (expired) exportFiles.delete(key)
Sweep(files, t) == {e \in files : ~Expired(e, t)}

\* Node's check of a header value (res.setHeader): every character must be a tab
\* or in \x20-\x7e or \x80-\xff, else setHeader throws ERR_INVALID_CHAR
HeaderSafe(name) == \A i \in DOMAIN name : name[i] = "latin1"

\* the last GET /download/:token exchange: the token asked for, the handler's
\* fileData and now (0 when it returned before reading the clock), and the reply
Reply(t, st, d, at, body, ctype, fname) ==
    [token |-> t, status |-> st, fileData |-> d, now |-> at,
     body |-> body, contentType |-> ctype, filename |-> fname]

NoReply == Reply(<<>>, 0, NoFile, 0, 0, "", NoFile.fileName)

\* The reference store takes part in every step of the file store: a stored file
\* is stored in it too, a retrieval consumes the token in it, and it drops every
\* file at the clock reading at which the file passes the expiry horizon.
\*
\* GET /download/:token of index.js: the token is looked up (404 when unknown),
\* then the files older than 24h are deleted, then the file that was looked up is
\* sent with its Content-Type and Content-Disposition and its token deleted.  A
\* file name that is no valid header value makes setHeader throw: the sweep has
\* run, nothing is sent but Express's 500 and the token stays
Download(t) ==
    /\ LET fileData == MapGet(exportFiles, t) IN
       IF fileData = NoFile
       THEN /\ response' = Reply(t, 404, NoFile, 0, 0, "", NoFile.fileName)
            /\ exportFiles' = exportFiles
            /\ served' = served
       ELSE IF ~HeaderSafe(fileData.fileName.name)
       THEN /\ response' = Reply(t, 500, fileData, now, 0, "", NoFile.fileName)
            /\ exportFiles' = Sweep(exportFiles, now)
            /\ served' = served
       ELSE /\ response' = Reply(t, 200, fileData, now, fileData.buffer,
                                 fileData.mimeType, fileData.fileName)
            /\ exportFiles' = MapDelete(Sweep(exportFiles, now), t)
            /\ served' = served \cup {t}
    /\ refStore' = MapDelete(refStore, t)
    /\ UNCHANGED <<variant, maxConcurrent, ADMIN_KEY, clearReply, notifyErrors, calls,
                   queue, running, isProcessing, nsub, req, pc, events, position, started,
                   result, emitted, fetching, failure, uploads, now>>

\* POST /cleanup: the files older than 24h are deleted (a call that deletes
\* nothing changes nothing)
Cleanup ==
    /\ exportFiles' = Sweep(exportFiles, now)
    /\ UNCHANGED <<variant, maxConcurrent, ADMIN_KEY, clearReply, notifyErrors, calls,
                   queue, running, isProcessing, nsub, req, pc, events, position, started,
                   result, emitted, fetching, failure, uploads, now, response, served,
                   refStore>>

\* GET /download/:token of part_003: the handler of index.js without its last
\* statement (the exportFiles.delete(token) after res.send is commented out), so
\* the file that was sent stays under its token
DownloadKeeps(t) ==
    /\ LET fileData == MapGet(exportFiles, t) IN
       IF fileData = NoFile
       THEN /\ response' = Reply(t, 404, NoFile, 0, 0, "", NoFile.fileName)
            /\ exportFiles' = exportFiles
            /\ served' = served
       ELSE IF ~HeaderSafe(fileData.fileName.name)
       THEN /\ response' = Reply(t, 500, fileData, now, 0, "", NoFile.fileName)
            /\ exportFiles' = Sweep(exportFiles, now)
            /\ served' = served
       ELSE /\ response' = Reply(t, 200, fileData, now, fileData.buffer,
                                 fileData.mimeType, fileData.fileName)
            /\ exportFiles' = Sweep(exportFiles, now)
            /\ served' = served \cup {t}
    /\ refStore' = MapDelete(refStore, t)
    /\ UNCHANGED <<variant, maxConcurrent, ADMIN_KEY, clearReply, notifyErrors, calls,
                   queue, running, isProcessing, nsub, req, pc, events, position, started,
                   result, emitted, fetching, failure, uploads, now>>

\* a value that is not there: an environment variable that is not set, a field
\* the request body does not have
Undefined == "undefined"

\* the admin key of a deployment that configures one
AdminKey == "secret"

\* the answer of POST /clear-files to a request with the given admin_key
ClearReply(key, st, deleted, remaining) ==
    [admin_key |-> key, status |-> st, deletedCount |-> deleted, files_remaining |-> remaining]

NoClearReply == ClearReply(Undefined, 0, 0, 0)

\* POST /clear-files of part_003 with the body's admin_key (Undefined when the
\* body has none): `admin_key !== process.env.ADMIN_KEY` answers 403 and changes
\* nothing; otherwise exportFiles.clear(), and the answer reports the size the
\* map had before and has after
ClearFiles(admin_key) ==
    /\ IF admin_key # ADMIN_KEY
       THEN /\ clearReply' = ClearReply(admin_key, 403, 0, 0)
            /\ exportFiles' = exportFiles
            /\ refStore' = refStore
       ELSE /\ clearReply' = ClearReply(admin_key, 200, Cardinality(exportFiles), 0)
            /\ exportFiles' = {}
            /\ refStore' = {}
    /\ UNCHANGED <<variant, maxConcurrent, ADMIN_KEY, notifyErrors, calls, queue, running,
                   isProcessing, nsub, req, pc, events, position, started, result, emitted,
                   fetching, failure, uploads, now, response, served>>

\* time passes: Date.now() reads one unit more (a unit is the expiry horizon's
\* scale; any number of event-loop turns fit into one reading)
Tick ==
    /\ now < MaxClock
    /\ now' = now + 1
    /\ refStore' = Sweep(refStore, now + 1)
    /\ UNCHANGED <<variant, maxConcurrent, ADMIN_KEY, clearReply, notifyErrors, calls,
                   queue, running, isProcessing, nsub, req, pc, events, position, started,
                   result, emitted, fetching, failure, uploads, exportFiles, response,
                   served>>

\* --------------------------------------------------------- the job body
\* the mutant: the next two entries are fetched at once (one is fetched ahead)
StartFetchesAhead(n, first) == {k \in first..n : k <= first + 1}

\* the mutant: every entry's fetch is started at once (Promise.all over the entries)
StartFetchesAll(n, first) == IF first = 1 THEN 1..n ELSE {}

\* the fetches the assembly starts when it reaches entry `first` of n: await
\* downloadFn(url) of that entry alone, none after the last entry
StartFetches(n, first) == IF first <= n THEN {first} ELSE {}

\* no call made yet: the fetch(url) calls as a bag of entry numbers, the
\* archive.finalize() / pdfDoc.save() calls as the numbers of entries appended
\* when they were made, the resolve / reject calls on the assembly's promise, and
\* the number of uploadToSupabase calls
NoCalls == [fetch |-> EmptyBag, finalize |-> <<>>, settle |-> <<>>, upload |-> 0]

\* the mutant: finalize() is called one entry early (before the last append)
CallsFinalizeEarly(v, r, next) == ~PlanThrows(v, r) /\ next + 1 > Len(Plan(v, r))

\* archive.finalize() / pdfDoc.save() is the statement after the last entry's
\* append: it is reached when the assembly has gone past its last entry (the
\* next one to handle is `next`) and nothing has thrown
CallsFinalize(v, r, next) == ~PlanThrows(v, r) /\ next > Len(Plan(v, r))

\* the calls made when the assembly of request r goes on to entry `next` with
\* `done` entries appended: the downloads it starts, and finalize() at the end
GoOn(c, v, r, next, done) ==
    [c EXCEPT !.fetch = @ (+) SetToBag(StartFetches(Len(Plan(v, r)), next)),
              !.finalize = IF CallsFinalize(v, r, next) THEN Append(@, done) ELSE @]

\* the await of updateExportStatus(exportId, 'processing') returns (the notifier's
\* own failure is logged and swallowed), generateCBZ / generatePDF is entered and
\* runs to the await of its first entry's download
NotifierReturns(j) ==
    /\ pc[j] = "processing"
    /\ pc' = [pc EXCEPT ![j] = "assembling"]
    /\ fetching' = [fetching EXCEPT ![j] = StartFetches(Len(Plan(variant, req[j])), 1)]
    /\ calls' = [calls EXCEPT ![j] = GoOn(@, variant, req[j], 1, 0)]
    /\ UNCHANGED <<variant, maxConcurrent, ADMIN_KEY, clearReply, notifyErrors, queue,
                   running, isProcessing, nsub, req, position, events, started, result,
                   emitted, failure, uploads>>
    /\ UNCHANGED storeVars

\* the download (and transform) of entry k returns: the entry is appended
\* (archive.append / pdfDoc.addPage) and the assembly runs on to the await of the
\* next entry's download
FetchEntry(j) ==
    /\ pc[j] = "assembling"
    /\ \E k \in fetching[j] :
          /\ emitted' = [emitted EXCEPT ![j] = Append(@, Plan(variant, req[j])[k])]
          /\ fetching' = [fetching EXCEPT ![j] =
                             (@ \ {k}) \cup StartFetches(Len(Plan(variant, req[j])), k + 1)]
          /\ calls' = [calls EXCEPT ![j] =
                          GoOn(@, variant, req[j], k + 1, Len(emitted[j]) + 1)]
    /\ UNCHANGED <<variant, maxConcurrent, ADMIN_KEY, clearReply, notifyErrors, queue,
                   running, isProcessing, nsub, req, position, pc, events, started, result,
                   failure, uploads>>
    /\ UNCHANGED storeVars

\* the mutant: a failed entry is left out and the assembly goes on with the next
\* (a partial-document fallback)
AssemblyFailsSkipsEntry(j) ==
    /\ pc[j] = "assembling"
    /\ \E k \in fetching[j] :
          /\ fetching' = [fetching EXCEPT ![j] =
                             (@ \ {k}) \cup StartFetches(Len(Plan(variant, req[j])), k + 1)]
          /\ calls' = [calls EXCEPT ![j] =
                          GoOn(@, variant, req[j], k + 1, Len(emitted[j]))]
    /\ UNCHANGED <<variant, maxConcurrent, ADMIN_KEY, clearReply, notifyErrors, queue,
                   running, isProcessing, nsub, req, position, pc, events, started, result,
                   emitted, failure, uploads>>
    /\ UNCHANGED storeVars

\* the mutant: the job fails, but what was assembled so far is stored / uploaded
AssemblyFailsKeepsPartial(j) ==
    /\ pc[j] = "assembling"
    /\ fetching[j] # {}
    /\ failure' = [failure EXCEPT ![j] = "entry"]
    /\ fetching' = [fetching EXCEPT ![j] = {}]
    /\ pc' = [pc EXCEPT ![j] = "failing"]
    /\ events' = [events EXCEPT ![j] = Append(@, "failed")]
    /\ IF variant = "pool"
       THEN uploads' = uploads \cup {j} /\ exportFiles' = exportFiles
       ELSE uploads' = uploads /\ exportFiles' = MapSet(exportFiles, FileData(j, req[j], now))
    /\ calls' = [calls EXCEPT ![j].settle = Append(@, "reject"),
                              ![j].upload = IF variant = "pool" THEN @ + 1 ELSE @]
    /\ refStore' = IF variant = "pool" THEN refStore
                   ELSE MapSet(refStore, FileData(j, req[j], now))
    /\ UNCHANGED <<variant, maxConcurrent, ADMIN_KEY, clearReply, notifyErrors, queue,
                   running, isProcessing, nsub, req, position, started, result, emitted,
                   now, response, served>>

\* the mutant: the download of a failed entry is started again
AssemblyFailsRetries(j) ==
    /\ pc[j] = "assembling"
    /\ fetching[j] # {}
    /\ calls' = [calls EXCEPT ![j].fetch = @ (+) SetToBag(fetching[j])]
    /\ UNCHANGED <<variant, maxConcurrent, ADMIN_KEY, clearReply, notifyErrors, queue,
                   running, isProcessing, nsub, req, position, pc, events, started, result,
                   emitted, fetching, failure, uploads>>
    /\ UNCHANGED storeVars

\* the download or the transform of the entry in flight fails (fetch rejects,
\* !response.ok throws 'Failed to download', sharp / embedPng rejects), or the
\* assembly throws by itself: the promise rejects, nothing is appended any more,
\* and the body's catch block calls
\* updateExportStatus(exportId, 'failed', { error_message: error.message })
AssemblyFails(j) ==
    /\ pc[j] = "assembling"
    /\ \/ fetching[j] # {} /\ failure' = [failure EXCEPT ![j] = "entry"]
       \/ fetching[j] = {} /\ PlanThrows(variant, req[j])
                           /\ failure' = [failure EXCEPT ![j] = "throw"]
    /\ fetching' = [fetching EXCEPT ![j] = {}]
    /\ pc' = [pc EXCEPT ![j] = "failing"]
    /\ events' = [events EXCEPT ![j] = Append(@, "failed")]
    /\ calls' = [calls EXCEPT ![j].settle = Append(@, "reject")]
    /\ UNCHANGED <<variant, maxConcurrent, ADMIN_KEY, clearReply, notifyErrors, queue,
                   running, isProcessing, nsub, req, position, started, result, emitted,
                   uploads>>
    /\ UNCHANGED storeVars

\* the mutant: 'completed' is announced with the download link before the file is
\* put into the store
FinalizeAnnouncesFirst(j) ==
    /\ pc[j] = "assembling"
    /\ fetching[j] = {}
    /\ calls[j].finalize # <<>>
    /\ Len(emitted[j]) = Len(Plan(variant, req[j]))
    /\ ~PlanThrows(variant, req[j])
    /\ IF variant = "pool"
       THEN /\ pc' = [pc EXCEPT ![j] = "uploading"]
            /\ uploads' = uploads \cup {j}
            /\ UNCHANGED <<events, exportFiles>>
       ELSE /\ pc' = [pc EXCEPT ![j] = "completing"]
            /\ events' = [events EXCEPT ![j] = Append(@, "completed")]
            /\ exportFiles' = exportFiles
            /\ UNCHANGED uploads
    /\ calls' = [calls EXCEPT ![j].settle = Append(@, "resolve"),
                              ![j].upload = IF variant = "pool" THEN @ + 1 ELSE @]
    /\ refStore' = IF variant = "pool" THEN refStore
                   ELSE MapSet(refStore, FileData(j, req[j], now))
    /\ UNCHANGED <<variant, maxConcurrent, ADMIN_KEY, clearReply, notifyErrors, queue,
                   running, isProcessing, nsub, req, position, started, result, emitted,
                   fetching, failure, now, response, served>>

\* every entry is appended and archive.finalize() / pdfDoc.save() was called: the
\* archive's 'end' event resolves the promise with the buffer.  part_002 goes on to uploadToSupabase; index.js stores the file under
\* a new token (exportFiles.set) and calls
\* updateExportStatus(exportId, 'completed', { file_url: downloadUrl, ... })
Finalize(j) ==
    /\ pc[j] = "assembling"
    /\ fetching[j] = {}
    /\ calls[j].finalize # <<>>
    /\ Len(emitted[j]) = Len(Plan(variant, req[j]))
    /\ ~PlanThrows(variant, req[j])
    /\ IF variant = "pool"
       THEN /\ pc' = [pc EXCEPT ![j] = "uploading"]
            /\ uploads' = uploads \cup {j}
            /\ UNCHANGED <<events, exportFiles>>
       ELSE /\ pc' = [pc EXCEPT ![j] = "completing"]
            /\ events' = [events EXCEPT ![j] = Append(@, "completed")]
            /\ exportFiles' = MapSet(exportFiles, FileData(j, req[j], now))
            /\ UNCHANGED uploads
    /\ calls' = [calls EXCEPT ![j].settle = Append(@, "resolve"),
                              ![j].upload = IF variant = "pool" THEN @ + 1 ELSE @]
    /\ refStore' = IF variant = "pool" THEN refStore
                   ELSE MapSet(refStore, FileData(j, req[j], now))
    /\ UNCHANGED <<variant, maxConcurrent, ADMIN_KEY, clearReply, notifyErrors, queue,
                   running, isProcessing, nsub, req, position, started, result, emitted,
                   fetching, failure, now, response, served>>

\* generateLongstrip returns the composed image: every panel was downloaded, one
\* after the other, and composited; uploadLongstripToSupabase is called
LongstripGenerated(j) ==
    /\ pc[j] = "generating"
    /\ pc' = [pc EXCEPT ![j] = "uploading"]
    /\ uploads' = uploads \cup {j}
    /\ calls' = [calls EXCEPT ![j].upload = @ + 1]
    /\ UNCHANGED <<variant, maxConcurrent, ADMIN_KEY, clearReply, notifyErrors, queue,
                   running, isProcessing, nsub, req, position, events, started, result,
                   emitted, fetching, failure>>
    /\ UNCHANGED storeVars

\* generateLongstrip rejects (a panel's download or sharp fails) or the file name
\* cannot be built: the catch block calls sendCallback(callback_url, export_id,
\* 'failed', { error_message })
LongstripFails(j) ==
    /\ pc[j] = "generating"
    /\ pc' = [pc EXCEPT ![j] = "failing"]
    /\ events' = [events EXCEPT ![j] = Append(@, "failed")]
    /\ failure' = [failure EXCEPT ![j] = "entry"]
    /\ UNCHANGED <<variant, maxConcurrent, ADMIN_KEY, clearReply, notifyErrors, calls,
                   queue, running, isProcessing, nsub, req, position, started, result,
                   emitted, fetching, uploads>>
    /\ UNCHANGED storeVars

\* the mutant: after 'completed' was reported a late fault reaches the catch block,
\* which reports 'failed' as well
UploadOkThenFails(j) ==
    /\ pc[j] = "uploading"
    /\ pc' = [pc EXCEPT ![j] = "failing"]
    /\ events' = [events EXCEPT ![j] = @ \o <<"completed", "failed">>]
    /\ UNCHANGED <<variant, maxConcurrent, ADMIN_KEY, clearReply, notifyErrors, calls,
                   queue, running, isProcessing, nsub, req, position, started, result,
                   emitted, fetching, failure, uploads>>
    /\ UNCHANGED storeVars

\* uploadToSupabase returns: updateExportStatus(exportId, 'completed', ...) is called
\* (uploadLongstripToSupabase returns: sendCallback(..., 'completed', ...))
UploadOk(j) ==
    /\ pc[j] = "uploading"
    /\ pc' = [pc EXCEPT ![j] = "completing"]
    /\ events' = [events EXCEPT ![j] = Append(@, "completed")]
    /\ UNCHANGED <<variant, maxConcurrent, ADMIN_KEY, clearReply, notifyErrors, calls,
                   queue, running, isProcessing, nsub, req, position, started, result,
                   emitted, fetching, failure, uploads>>
    /\ UNCHANGED storeVars

\* the mutant: a failed upload is tried again
UploadFailsRetries(j) ==
    /\ pc[j] = "uploading"
    /\ failure' = [failure EXCEPT ![j] = "upload"]
    /\ calls' = [calls EXCEPT ![j].upload = @ + 1]
    /\ UNCHANGED <<variant, maxConcurrent, ADMIN_KEY, clearReply, notifyErrors, queue,
                   running, isProcessing, nsub, req, position, pc, events, started, result,
                   emitted, fetching, uploads>>
    /\ UNCHANGED storeVars

\* uploadToSupabase throws 'Supabase upload failed': the catch block calls
\* updateExportStatus(exportId, 'failed', ...) (uploadLongstripToSupabase throws:
\* the catch block calls sendCallback(..., 'failed', ...))
UploadFails(j) ==
    /\ pc[j] = "uploading"
    /\ pc' = [pc EXCEPT ![j] = "failing"]
    /\ events' = [events EXCEPT ![j] = Append(@, "failed")]
    /\ failure' = [failure EXCEPT ![j] = "upload"]
    /\ UNCHANGED <<variant, maxConcurrent, ADMIN_KEY, clearReply, notifyErrors, calls,
                   queue, running, isProcessing, nsub, req, position, started, result,
                   emitted, fetching, uploads>>
    /\ UNCHANGED storeVars

\* the mutant: the finished job's slot is released but process() is not called
JobReturnsNoProcess(j) ==
    /\ pc[j] \in {"completing", "failing"}
    /\ result' = [result EXCEPT ![j] = "resolved"]
    /\ pc' = [pc EXCEPT ![j] = IF pc[j] = "completing" THEN "completed" ELSE "failed"]
    /\ running' = IF variant = "pool" THEN running - 1 ELSE running
    /\ isProcessing' = FALSE
    /\ UNCHANGED <<variant, maxConcurrent, ADMIN_KEY, clearReply, notifyErrors, calls,
                   queue, nsub, req, position, events, started, emitted, fetching, failure,
                   uploads>>
    /\ UNCHANGED storeVars

\* the mutant: the completion does not give the slot back (no running--)
JobReturnsKeepsCount(j) ==
    /\ pc[j] \in {"completing", "failing"}
    /\ result' = [result EXCEPT ![j] = "resolved"]
    /\ req' = req
    /\ Process(queue, running, FALSE,
               [pc EXCEPT ![j] = IF pc[j] = "completing" THEN "completed" ELSE "failed"],
               events)
    /\ UNCHANGED <<variant, maxConcurrent, ADMIN_KEY, clearReply, notifyErrors, calls, nsub,
                   position, emitted, fetching, failure, uploads>>
    /\ UNCHANGED storeVars

\* the mutant: the completion frees two slots (as if two completions had both
\* counted the same slot)
JobReturnsFreesTwice(j) ==
    /\ pc[j] \in {"completing", "failing"}
    /\ result' = [result EXCEPT ![j] = "resolved"]
    /\ req' = req
    /\ Process(queue, IF variant = "pool" /\ running >= 2 THEN running - 2 ELSE 0, FALSE,
               [pc EXCEPT ![j] = IF pc[j] = "completing" THEN "completed" ELSE "failed"],
               events)
    /\ UNCHANGED <<variant, maxConcurrent, ADMIN_KEY, clearReply, notifyErrors, calls, nsub,
                   position, emitted, fetching, failure, uploads>>
    /\ UNCHANGED storeVars

\* the last notifier call of the body returns and the body returns: the
\* continuation of process() resolves, then (finally) running-- and process();
\* that of processQueue() sets isProcessing = false and calls processQueue()
JobReturns(j) ==
    /\ pc[j] \in {"completing", "failing"}
    /\ result' = [result EXCEPT ![j] = "resolved"]
    /\ req' = req
    /\ Process(queue, IF variant = "pool" THEN running - 1 ELSE running, FALSE,
               [pc EXCEPT ![j] = IF pc[j] = "completing" THEN "completed" ELSE "failed"],
               events)
    /\ UNCHANGED <<variant, maxConcurrent, ADMIN_KEY, clearReply, notifyErrors, calls, nsub,
                   position, emitted, fetching, failure, uploads>>
    /\ UNCHANGED storeVars

\* the call of updateExportStatus(exportId, 'processing') fails (fetch rejects or
\* the answer is not ok): updateExportStatus catches and logs the error and
\* returns, and the body goes on as after a call that succeeded
NotifierFails(j) ==
    /\ pc[j] = "processing"
    /\ pc' = [pc EXCEPT ![j] = "assembling"]
    /\ fetching' = [fetching EXCEPT ![j] = StartFetches(Len(Plan(variant, req[j])), 1)]
    /\ calls' = [calls EXCEPT ![j] = GoOn(@, variant, req[j], 1, 0)]
    /\ notifyErrors' = [notifyErrors EXCEPT ![j] = Append(@, "processing")]
    /\ UNCHANGED <<variant, maxConcurrent, ADMIN_KEY, clearReply, queue, running,
                   isProcessing, nsub, req, position, events, started, result, emitted,
                   failure, uploads>>
    /\ UNCHANGED storeVars

\* the mutant: the error of a failed 'completed' call is not caught by
\* updateExportStatus and reaches the body's catch block, which reports 'failed'
LastNotifierEscapes(j) ==
    /\ pc[j] = "completing"
    /\ pc' = [pc EXCEPT ![j] = "failing"]
    /\ events' = [events EXCEPT ![j] = Append(@, "failed")]
    /\ notifyErrors' = [notifyErrors EXCEPT ![j] = Append(@, "completed")]
    /\ UNCHANGED <<variant, maxConcurrent, ADMIN_KEY, clearReply, calls, queue, running,
                   isProcessing, nsub, req, position, started, result, emitted, fetching,
                   failure, uploads>>
    /\ UNCHANGED storeVars

\* the last notifier call of the body ('completed' or 'failed') fails:
\* updateExportStatus catches and logs the error and returns, and the body
\* returns as after a call that succeeded
LastNotifierFails(j) ==
    /\ pc[j] \in {"completing", "failing"}
    /\ result' = [result EXCEPT ![j] = "resolved"]
    /\ req' = req
    /\ Process(queue, IF variant = "pool" THEN running - 1 ELSE running, FALSE,
               [pc EXCEPT ![j] = IF pc[j] = "completing" THEN "completed" ELSE "failed"],
               events)
    /\ notifyErrors' = [notifyErrors EXCEPT ![j] =
                           Append(@, IF pc[j] = "completing" THEN "completed" ELSE "failed")]
    /\ UNCHANGED <<variant, maxConcurrent, ADMIN_KEY, clearReply, calls, nsub, position,
                   emitted, fetching, failure, uploads>>
    /\ UNCHANGED storeVars

\* the mutant: a job that throws keeps its slot and nothing is started after it
JobThrowsKeepsSlot(j) ==
    /\ pc[j] \in {"assembling", "uploading"}
    /\ result' = [result EXCEPT ![j] = "rejected"]
    /\ pc' = [pc EXCEPT ![j] = "failed"]
    /\ events' = [events EXCEPT ![j] = Append(@, "queue_error")]
    /\ fetching' = [fetching EXCEPT ![j] = {}]
    /\ UNCHANGED <<variant, maxConcurrent, ADMIN_KEY, clearReply, notifyErrors, calls,
                   queue, running, isProcessing, nsub, req, position, started, emitted,
                   failure, uploads>>
    /\ UNCHANGED storeVars

\* the job body throws (a fault inside the body escapes its own catch block):
\* process() rejects the job's promise ('Queue error' is logged), then (finally)
\* running-- and process(); processQueue() logs 'Queue task failed', sets
\* isProcessing = false and calls processQueue()
JobThrows(j) ==
    /\ pc[j] \in {"assembling", "uploading"}
    /\ result' = [result EXCEPT ![j] = "rejected"]
    /\ fetching' = [fetching EXCEPT ![j] = {}]
    /\ req' = req
    /\ Process(queue, IF variant = "pool" THEN running - 1 ELSE running, FALSE,
               [pc EXCEPT ![j] = "failed"],
               [events EXCEPT ![j] = Append(@, "queue_error")])
    /\ UNCHANGED <<variant, maxConcurrent, ADMIN_KEY, clearReply, notifyErrors, calls, nsub,
                   position, emitted, failure, uploads>>
    /\ UNCHANGED storeVars

\* one step of job j's body
JobStep(j) ==
    \/ NotifierReturns(j)
    \/ FetchEntry(j)
    \/ AssemblyFails(j)
    \/ Finalize(j)
    \/ UploadOk(j)
    \/ UploadFails(j)
    \/ JobReturns(j)
    \/ JobThrows(j)

\* ------------------------------------------------------ specifications
\* the state after the module has loaded, whatever the environment
Constructed ==
    /\ variant \in {"pool", "single"}
    /\ maxConcurrent \in 1..MaxLimit
    /\ variant = "single" => maxConcurrent = 1
    /\ queue = <<>>
    /\ running = 0
    /\ isProcessing = FALSE
    /\ nsub = 0
    /\ req = [j \in Jobs |-> NoReq]
    /\ pc = [j \in Jobs |-> "none"]
    /\ events = [j \in Jobs |-> <<>>]
    /\ position = [j \in Jobs |-> 0]
    /\ started = <<>>
    /\ result = [j \in Jobs |-> "none"]
    /\ emitted = [j \in Jobs |-> <<>>]
    /\ fetching = [j \in Jobs |-> {}]
    /\ failure = [j \in Jobs |-> "none"]
    /\ uploads = {}
    /\ exportFiles = {}
    /\ now = 0
    /\ response = NoReply
    /\ served = {}
    /\ calls = [j \in Jobs |-> NoCalls]
    /\ refStore = {}
    /\ notifyErrors = [j \in Jobs |-> <<>>]
    /\ clearReply = NoClearReply

\* the state after construction of a deployment that sets ADMIN_KEY
Init == Constructed /\ ADMIN_KEY = AdminKey

\* a request arrives while fewer than MaxJobs were received
Submit == nsub < MaxJobs /\ \E r \in QueueRequests : ExportHandler(r)

Next == Submit \/ \E j \in Jobs : JobStep(j)

\* the service under any sequence of requests
Spec == Init /\ [][Next]_vars

\* the request bodies of the fair specification: a well-formed job, and one that
\* part_002 rejects and index.js admits
FairRequests ==
    { Request("e1", "cbz", TRUE, <<1>>, NoCovers),
      Request(NoId, "cbz", TRUE, <<1>>, NoCovers) }

SubmitFair == nsub < MaxJobs /\ \E r \in FairRequests : ExportHandler(r)

NextFair == SubmitFair \/ \E j \in Jobs : JobStep(j)

\* the service when every job body that can take a step eventually takes it: the
\* event loop runs every continuation whose awaited promise has settled, and
\* every awaited call of a running body is assumed to settle
FairSpec == Init /\ [][NextFair]_vars /\ \A j \in Jobs : WF_vars(JobStep(j))

\* the steps of job j's body that do not wait for a remote image: the notifier
\* call, the end of the assembly, the upload and the body's return
SettlesAnyway(j) ==
    \/ NotifierReturns(j)
    \/ Finalize(j)
    \/ UploadOk(j)
    \/ UploadFails(j)
    \/ JobReturns(j)

\* the service when a remote image server may never answer: fetch(url) is called
\* without a timeout or an abort signal, so the steps that wait for its answer
\* (FetchEntry, AssemblyFails) are not forced to happen; every other step of a
\* body that can be taken eventually is
StuckSpec == Init /\ [][NextFair]_vars /\ \A j \in Jobs : WF_vars(SettlesAnyway(j))

\* one request with a detailed job description
SubmitOne == nsub = 0 /\ \E r \in AsmRequests : ExportHandler(r)

NextAsm == SubmitOne \/ \E j \in Jobs : JobStep(j)

\* the assembly of one job, for every job description within the bounds
AsmSpec == Init /\ [][NextAsm]_vars

\* the request bodies of the store specification: one-page jobs with a job
\* identifier that may repeat and a comic name that may hold a wide character
StoreRequests ==
    { [Request("e1", "cbz", TRUE, <<1>>, NoCovers) EXCEPT !.comicName = PlainName],
      [Request("e1", "pdf", TRUE, <<1>>, NoCovers) EXCEPT !.comicName = WideName] }

\* the tokens GET /download is asked for: every token the service can have issued
DownloadTokens == {Token(id, t) : id \in ExportIds, t \in 0..MaxClock}

SubmitStore == nsub < MaxStoreJobs /\ \E r \in StoreRequests : ExportHandler(r)

\* one step of job j's body in index.js: it has no upload, and its catch block
\* lets nothing escape to processQueue()
IndexJobStep(j) ==
    \/ NotifierReturns(j)
    \/ FetchEntry(j)
    \/ AssemblyFails(j)
    \/ Finalize(j)
    \/ JobReturns(j)

NextStore ==
    \/ SubmitStore
    \/ \E j \in Jobs : IndexJobStep(j)
    \/ \E t \in DownloadTokens : Download(t)
    \/ Cleanup
    \/ Tick

\* the server that keeps the exported files in memory (index.js), with its
\* download and cleanup endpoints and the passing of time
StoreInit == Init /\ variant = "single"

StoreSpec == StoreInit /\ [][NextStore]_vars

\* the server of index.js when no client is obliged to call it: time passes and
\* every job body that can take a step takes it, but GET /download and POST
\* /cleanup are requests that may never come (the server has no timer of its own)
IdleSpec ==
    /\ StoreInit
    /\ [][NextStore]_vars
    /\ WF_vars(Tick)
    /\ \A j \in Jobs : WF_vars(IndexJobStep(j))

\* the admin_key of a request body: none, the key of the deployment, another one
AdminKeys == {Undefined, AdminKey, "guess"}

\* the deployments of part_003: ADMIN_KEY is set, or it is not
KeepInit == Constructed /\ variant = "single" /\ ADMIN_KEY \in {Undefined, AdminKey}

NextKeep ==
    \/ SubmitStore
    \/ \E j \in Jobs : IndexJobStep(j)
    \/ \E t \in DownloadTokens : DownloadKeeps(t)
    \/ \E admin_key \in AdminKeys : ClearFiles(admin_key)
    \/ Tick

\* the server of part_003: the queue, the job body and the file store of index.js
\* (its response carries no queuePosition, which nothing here reads), with the
\* download endpoint that keeps the file and the clear-files endpoint
KeepSpec == KeepInit /\ [][NextKeep]_vars

\* the request bodies of the two endpoints that share the export queue: one
\* well-formed body for each, and a longstrip body without callback_url
ExportBodies == { Request("e1", "cbz", TRUE, <<1>>, NoCovers) }

LongstripBodies ==
    { LongstripRequest("e2", TRUE, <<1>>, CallbackUrl),
      LongstripRequest("e2", TRUE, <<1>>, NoUrl) }

SubmitExport == nsub < MaxJobs /\ \E r \in ExportBodies : ExportHandler(r)

SubmitLongstrip == nsub < MaxJobs /\ \E r \in LongstripBodies : LongstripHandler(r)

\* one step of the body of a job of either endpoint
SharedJobStep(j) ==
    \/ NotifierReturns(j)
    \/ FetchEntry(j)
    \/ AssemblyFails(j)
    \/ Finalize(j)
    \/ LongstripGenerated(j)
    \/ LongstripFails(j)
    \/ UploadOk(j)
    \/ UploadFails(j)
    \/ JobReturns(j)

NextShared == SubmitExport \/ SubmitLongstrip \/ \E j \in Jobs : SharedJobStep(j)

\* part_002 with both of its export endpoints on the one exportQueue
SharedInit == Init /\ variant = "pool"

SharedSpec == SharedInit /\ [][NextShared]_vars

\* one step of job j's body when the status service may fail any call
NotifyJobStep(j) ==
    \/ NotifierReturns(j)
    \/ NotifierFails(j)
    \/ FetchEntry(j)
    \/ AssemblyFails(j)
    \/ Finalize(j)
    \/ UploadOk(j)
    \/ UploadFails(j)
    \/ JobReturns(j)
    \/ LastNotifierFails(j)

\* the number of requests received while the status service may fail
MaxNotifyJobs == 2

SubmitNotify == nsub < MaxNotifyJobs /\ \E r \in FairRequests : ExportHandler(r)

NextNotify == SubmitNotify \/ \E j \in Jobs : NotifyJobStep(j)

\* the service with a status service that may fail any of the calls made to it
NotifySpec == Init /\ [][NextNotify]_vars

\* ------------------------------------------------------------ properties
\* helpers of the properties
Range(f) == {f[i] : i \in DOMAIN f}

InBody(j) ==
    pc[j] \in {"processing", "generating", "assembling", "uploading", "completing", "failing"}

\* the job's lifecycle state: queued, running, completed, failed (none: not admitted)
Life(j) ==
    IF pc[j] = "queued" THEN "queued"
    ELSE IF InBody(j) THEN "running"
    ELSE IF pc[j] \in {"completed", "failed"} THEN pc[j]
    ELSE "none"

\* how often job j's body was started
StartCount(j) == Cardinality({i \in DOMAIN started : started[i] = j})

\* C1: the ExportQueue's running counter never exceeds maxConcurrent, whatever the
\* order of add() calls and of completions by success or by thrown error.
C1_RunningWithinLimit == variant = "pool" => running <= maxConcurrent

\* C1 witness: every slot is taken, a job waits, and an earlier job has ended by
\* a thrown error
C1_Witness ==
    /\ variant = "pool"
    /\ running = maxConcurrent
    /\ queue # <<>>
    /\ \E j \in Jobs : result[j] = "rejected"

\* C2: job bodies start in submission order (job ids grow with submission), and no
\* job has been started while a job submitted before it still waits in the queue;
\* for ExportQueue.process and for the single-slot processQueue.
C2_FifoStart ==
    /\ \A i, k \in DOMAIN started : i < k => started[i] < started[k]
    /\ \A i \in DOMAIN queue : \A k \in DOMAIN started : started[k] < queue[i]
    /\ \A i, k \in DOMAIN queue : i < k => queue[i] < queue[k]

\* C2 witness: a job that had waited behind another waiting job's turn has been
\* started after it, and a later one still waits
C2_Witness ==
    /\ Len(started) >= 2
    /\ queue # <<>>
    /\ \E j \in Jobs : position[j] >= 2

\* C3: under FairSpec (every job body step that stays possible is taken), every
\* job waiting in the queue is eventually started.
C3_NoStarvation ==
    \A j \in Jobs : (pc[j] = "queued") ~> (\E i \in DOMAIN started : started[i] = j)

\* C3 witness: a job that was told a queue position of 2 or more (so it waited
\* behind a waiting job) has been started
C3_Witness == \E j \in Jobs : position[j] >= 2 /\ StartCount(j) = 1

\* one job's step in the lifecycle queued -> running -> completed | failed
LifeStepOk(j) ==
    \/ Life(j)' = Life(j)
    \/ Life(j) = "none" /\ Life(j)' \in {"queued", "running"}
    \/ Life(j) = "queued" /\ Life(j)' = "running"
    \/ Life(j) = "running" /\ Life(j)' \in {"completed", "failed"}

\* what holds of one job in every state: its body was started at most once, and
\* exactly when it left the queue; 'completed' and a failure are never both
\* reported; a terminal state is the one that was reported
LifeStateOk(j) ==
    /\ StartCount(j) <= 1
    /\ StartCount(j) = 1 <=> Life(j) \in {"running", "completed", "failed"}
    /\ ~("completed" \in Range(events[j])
         /\ ({"failed", "queue_error"} \cap Range(events[j]) # {}))
    /\ Life(j) = "completed" => "completed" \in Range(events[j])
    /\ Life(j) = "failed" => {"failed", "queue_error"} \cap Range(events[j]) # {}
    /\ Life(j) \in {"queued", "running"} => result[j] = "none"

\* C4: every admitted job moves queued -> running -> completed | failed only,
\* reaches one terminal state and stays there, is never both completed and failed,
\* and its body is started at most once.
C4_Lifecycle == [][\A j \in Jobs : LifeStepOk(j) /\ LifeStateOk(j)']_vars

\* C4 witness: one job has completed and another has failed
C4_Witness == \E j, k \in Jobs : pc[j] = "completed" /\ pc[k] = "failed"

\* a step in which job j's body throws at the queue boundary
Throws(j) == result[j] = "none" /\ result'[j] = "rejected"

\* C5: when a job body throws, its slot is released in that step and the job at the
\* head of the queue, if any, is started right then: running is running - 1 (+ 1
\* for the job started), isProcessing is false unless a waiting job took the slot.
C5_ThrowReleasesSlot ==
    [][\A j \in Jobs : Throws(j) =>
          /\ pc'[j] = "failed"
          /\ IF queue # <<>>
             THEN /\ queue' = Tail(queue)
                  /\ started' = Append(started, Head(queue))
                  /\ pc'[Head(queue)] = "processing"
                  /\ variant = "pool" => running' = running
                  /\ variant = "single" => isProcessing'
             ELSE /\ queue' = queue
                  /\ started' = started
                  /\ variant = "pool" => running' = running - 1
                  /\ variant = "single" => ~isProcessing']_vars

\* C5 witness: a job threw, and a job that had been waiting in the queue ran to
\* completion after it
C5_Witness ==
    \E j, k \in Jobs :
        /\ j < k
        /\ result[j] = "rejected"
        /\ position[k] >= 2
        /\ pc[k] = "completed"

\* C6: every accepted submission is acknowledged first: the response with the
\* queue position precedes the job's start and its 'processing' notification, and
\* it is there while the job still waits and other jobs run.
C6_AckBeforeStart ==
    \A j \in Jobs :
        pc[j] \notin {"none", "rejected", "crashed"} =>
            /\ events[j] # <<>>
            /\ events[j][1] = "ack"
            /\ position[j] >= 1
            /\ \A i \in DOMAIN events[j] : i > 1 => events[j][i] # "ack"

\* C6 witness: a job is acknowledged and still waits while another job runs
C6_Witness ==
    \E j, k \in Jobs :
        /\ pc[j] = "queued"
        /\ events[j] = <<"ack">>
        /\ InBody(k)
        /\ events[k][1] = "ack"

\* the pages of a request that have the same page number > 0 as another page
HasDuplicatePage(pages) ==
    \E i, k \in DOMAIN pages :
        i # k /\ pages[i].page_number > 0 /\ pages[i].page_number = pages[k].page_number

\* a request that must fail validation: no job identifier, no page list, an empty one
FailsValidation(r) == r.exportId = NoId \/ ~r.hasPages \/ r.pages = <<>>

\* C7: a submission without a job identifier or without pages is answered with a
\* rejection and never enters the queue: it is never queued or started, nothing
\* but the rejection is ever sent for it, and the queue is as it would be without.
C7_InvalidNeverQueued ==
    \A j \in Jobs :
        (j <= nsub /\ FailsValidation(req[j])) =>
            /\ pc[j] = "rejected"
            /\ events[j] = <<"reject">>
            /\ StartCount(j) = 0
            /\ \A i \in DOMAIN queue : queue[i] # j

\* C8: a job description (with its job identifier) in which two pages have the
\* same page number > 0 is rejected:
\* it is never queued or started and no entry is emitted for it.
C8_DuplicatesRejected ==
    \A j \in Jobs :
        (j <= nsub /\ req[j].exportId # NoId /\ HasDuplicatePage(req[j].pages)) =>
            /\ pc[j] = "rejected"
            /\ emitted[j] = <<>>

\* the assembly of job j has returned its buffer
Assembled(j) == pc[j] \in {"uploading", "completing", "completed"}

\* the page number of the page item an entry's image source belongs to
PageNumberOf(r, u) == r.pages[u[2]].page_number

\* the image sources of the items with page number 0 / > 0
Page0Sources(r) == {r.pages[i].image_url : i \in {k \in DOMAIN r.pages : r.pages[k].page_number = 0}}

RegularSources(r) == {r.pages[i].image_url : i \in {k \in DOMAIN r.pages : r.pages[k].page_number > 0}}

\* e is: the leading cover if present, the chapter-slot entry if any (the chapter
\* cover, else possibly a page-0 image), the pages > 0 in ascending page-number
\* order, the trailing cover if present, and nothing else
OrderedAsClaimed(e, r) ==
    \E lead, chap, trail \in 0..1 :
        LET n == Cardinality(RegularSources(r)) IN
        /\ lead = 1 <=> r.covers.comic_cover # NoUrl
        /\ trail = 1 <=> r.covers.back_cover # NoUrl
        /\ r.covers.chapter_cover # NoUrl => chap = 1
        /\ (r.covers.chapter_cover = NoUrl /\ Page0Sources(r) = {}) => chap = 0
        /\ Len(e) = lead + chap + n + trail
        /\ lead = 1 => e[1].src = r.covers.comic_cover
        /\ chap = 1 => IF r.covers.chapter_cover # NoUrl
                       THEN e[lead + 1].src = r.covers.chapter_cover
                       ELSE e[lead + 1].src \in Page0Sources(r)
        /\ {e[lead + chap + k].src : k \in 1..n} = RegularSources(r)
        /\ \A k \in 1..(n - 1) :
               PageNumberOf(r, e[lead + chap + k].src)
                   <= PageNumberOf(r, e[lead + chap + k + 1].src)
        /\ trail = 1 => e[Len(e)].src = r.covers.back_cover

\* C9: the entries generateCBZ / generatePDF emit for a job are the leading cover, the
\* chapter-slot entry, the pages > 0 in ascending page-number order whatever their
\* order in the request, and the trailing cover; nothing else.
C9_EmittedInOrder ==
    \A j \in Jobs :
        (Assembled(j) /\ req[j].exportId # NoId) => OrderedAsClaimed(emitted[j], req[j])

\* C10: when covers.chapter_cover is set, no emitted entry is built from a page
\* item with page number 0, at any point of the assembly.
C10_ChapterCoverExclusive ==
    \A j \in Jobs :
        req[j].covers.chapter_cover # NoUrl =>
            \A k \in DOMAIN emitted[j] : emitted[j][k].src \notin Page0Sources(req[j])

\* C10 witness: a job with a chapter cover and a page 0 among its pages has been
\* assembled, the chapter cover and a regular page among its entries
C10_Witness ==
    \E j \in Jobs :
        /\ req[j].covers.chapter_cover # NoUrl
        /\ Page0Sources(req[j]) # {}
        /\ RegularSources(req[j]) # {}
        /\ Assembled(j)
        /\ \E k \in DOMAIN emitted[j] : emitted[j][k].src = ChapterUrl

\* the page list has an image for every item and no two items with one page number
UniquePageNumbers(pages) ==
    \A i, k \in DOMAIN pages : i # k => pages[i].page_number # pages[k].page_number

\* the positions of e whose entry is built from a page item with page number 0
Page0Positions(e, r) == {k \in DOMAIN e : e[k].src \in Page0Sources(r)}

\* C11: when covers.chapter_cover is absent and the page list has one item with page
\* number 0, the assembled output holds that item's image exactly once, right after
\* the leading cover if there is one and before every page > 0; a PDF of a request
\* without covers (and with unique page numbers) then has exactly Len(pages) pages.
C11_Page0InChapterSlot ==
    \A j \in Jobs :
        (/\ Assembled(j)
         /\ req[j].exportId # NoId
         /\ req[j].covers.chapter_cover = NoUrl
         /\ Cardinality(Page0Sources(req[j])) = 1) =>
            /\ Page0Positions(emitted[j], req[j])
                   = {IF req[j].covers.comic_cover # NoUrl THEN 2 ELSE 1}
            /\ (/\ req[j].covers = NoCovers
                /\ req[j].format = "pdf"
                /\ UniquePageNumbers(req[j].pages)) => Len(emitted[j]) = Len(req[j].pages)

\* the permutations of 1..n
Perms(n) == {f \in [1..n -> 1..n] : \A i, k \in 1..n : i # k => f[i] # f[k]}

\* the page items of pages listed in the order f
Reordered(pages, f) == [i \in DOMAIN pages |-> pages[f[i]]]

\* C12: the emitted sequence depends on the job description as a set only: for a
\* page list with unique page numbers, the entries (index, label, page number, image
\* source) assembled for it are those the same covers and the same page items,
\* listed in any other order, are assembled to.
C12_OrderIndependent ==
    \A j \in Jobs :
        (/\ Assembled(j)
         /\ req[j].exportId # NoId
         /\ UniquePageNumbers(req[j].pages)) =>
            \A f \in Perms(Len(req[j].pages)) :
                FullPlan(variant, [req[j] EXCEPT !.pages = Reordered(req[j].pages, f)])
                    = emitted[j]

\* C13: the sequence indices of the members appended to a job's archive (the numeric
\* prefixes of the member names) are 0, 1, ..., n-1 in the order of appending, for
\* every combination of covers and pages: increasing, without gap, none shared.
C13_IndicesGapless ==
    \A j \in Jobs :
        (req[j].exportId # NoId /\ req[j].hasPages /\ req[j].format = "cbz") =>
            \A k \in DOMAIN emitted[j] : emitted[j][k].index = k - 1

\* the entry buffers job j's assembly holds: one for each entry whose download has
\* been started and that is not appended yet
LiveBuffers(j) == Cardinality(fetching[j])

\* C14: within one job's assembly the entries are handled one at a time: at most one
\* entry is in flight (so at most one entry buffer is live), and it is the entry
\* right after those already appended, whatever the number of entries.
C14_OneEntryAtATime ==
    \A j \in Jobs :
        /\ LiveBuffers(j) <= 1
        /\ \A k \in fetching[j] : k = Len(emitted[j]) + 1
        /\ fetching[j] # {} => pc[j] = "assembling"

\* C14 witness: the fifth entry of a job is in flight, four are appended
C14_Witness ==
    \E j \in Jobs : pc[j] = "assembling" /\ Len(emitted[j]) = 4 /\ fetching[j] = {5}

\* C15: at every point of a job's assembly the entries appended so far are the first
\* entries of the computed order, in that order, however long each download takes;
\* the assembled output is the computed order in full.
C15_AppendedInPlanOrder ==
    \A j \in Jobs :
        /\ Len(emitted[j]) <= Len(Plan(variant, req[j]))
        /\ emitted[j] = SubSeq(Plan(variant, req[j]), 1, Len(emitted[j]))
        /\ Assembled(j) => emitted[j] = Plan(variant, req[j])

\* C15 witness: a job with a leading cover, pages and a trailing cover, at least
\* four entries in all, has been assembled
C15_Witness ==
    \E j \in Jobs :
        /\ Assembled(j)
        /\ Len(emitted[j]) >= 4
        /\ emitted[j][1].src = ComicUrl
        /\ emitted[j][Len(emitted[j])].src = BackUrl

\* a step in which the download or transform of an entry of job j fails: an entry
\* that was in flight no longer is and nothing was appended (the body itself does
\* not throw at the queue)
EntryFails(j) ==
    /\ \E k \in fetching[j] : k \notin fetching'[j]
    /\ emitted'[j] = emitted[j]
    /\ result'[j] = result[j]

\* job j's file has been handed on: uploaded, stored or sent
Delivered(j) ==
    \/ j \in uploads
    \/ \E e \in exportFiles : e.buffer = j
    \/ response.body = j

\* C16: when the fetch or transform of an entry fails, the assembly aborts in that
\* step ('failed' is reported with the error, nothing stays in flight), and from
\* then on no entry is fetched or appended, the output is never finalized or
\* handed on, 'completed' is never reported and the job is failing or failed.
C16_FailureAborts ==
    [][\A j \in Jobs :
          /\ EntryFails(j) =>
                /\ pc'[j] = "failing"
                /\ failure'[j] = "entry"
                /\ events'[j] = Append(events[j], "failed")
                /\ fetching'[j] = {}
          /\ failure[j] = "entry" =>
                /\ failure'[j] = "entry"
                /\ emitted'[j] = emitted[j]
                /\ Len(emitted[j]) < Len(Plan(variant, req[j]))
                /\ fetching'[j] = {}
                /\ pc'[j] \in {"failing", "failed"}
                /\ ~Assembled(j)'
                /\ ~Delivered(j)'
                /\ "completed" \notin Range(events'[j])]_vars

\* C16 witness: a job has failed on an entry in the middle of its assembly: an entry
\* was appended before it and at least one more was still to come after it
C16_Witness ==
    \E j \in Jobs :
        /\ failure[j] = "entry"
        /\ pc[j] = "failed"
        /\ Len(emitted[j]) >= 1
        /\ Len(emitted[j]) + 2 <= Len(Plan(variant, req[j]))

\* C17: once a fetch of an entry of a job has failed, exportFiles never holds a file
\* of that job, no upload is made for it and nothing of it is sent; the job is
\* failing or failed and 'failed' was reported.
C17_NoArtifactAfterFailedFetch ==
    \A j \in Jobs :
        failure[j] = "entry" =>
            /\ ~Delivered(j)
            /\ pc[j] \in {"failing", "failed"}
            /\ "failed" \in Range(events[j])

\* C17 witness: a job has failed on an entry after another job's file was stored or
\* uploaded
C17_Witness ==
    \E j, k \in Jobs :
        /\ j # k
        /\ failure[j] = "entry"
        /\ pc[j] = "failed"
        /\ Delivered(k)

\* C18: a GET /download/:token for a file that is older than the expiry horizon when
\* the request is handled is never answered with the file: what the lookup finds
\* expired is not sent (the reply is the not-found one), sweep or no sweep before.
C18_ExpiredNotServed ==
    (response.fileData # NoFile /\ Expired(response.fileData, response.now)) =>
        /\ response.status # 200
        /\ response.body = 0

\* C19: a GET /download/:token that finds a file not older than the expiry horizon
\* under the token (its first retrieval: a retrieval deletes the token) is answered
\* with that file: the buffer the job assembled, the MIME type and the file name
\* the job gave it, whatever was stored, retrieved or swept in between.
C19_FirstRetrievalExact ==
    (response.fileData # NoFile /\ ~Expired(response.fileData, response.now)) =>
        /\ response.status = 200
        /\ response.body = response.fileData.buffer
        /\ response.contentType = MimeType(req[response.fileData.buffer].format)
        /\ response.filename = FileName(req[response.fileData.buffer])

\* a step in which job j's file is stored (exportFiles.set)
StoresFile(j) == variant = "single" /\ pc[j] = "assembling" /\ pc'[j] = "completing"

\* C20: the token a file is stored under is not the token of a file that is in
\* the store: exportFiles.set never overwrites a stored file, also when a job
\* identifier is submitted more than once.
C20_TokensUnique ==
    [][\A j \in Jobs :
          StoresFile(j) =>
              \A e \in exportFiles : e.token # Token(req[j].exportId, now)]_vars

\* a step in which GET /download/:token answers a request for token t
Answers(t) == response' # response /\ response'.token = t

\* C21: a retrieval consumes the file: once GET /download/:token has answered with
\* the file of a token, the store holds nothing under that token, and every later
\* request for the token is answered 404.
C21_RetrievalConsumes ==
    [][\A t \in DownloadTokens :
          /\ t \in served' => MapGet(exportFiles', t) = NoFile
          /\ (t \in served /\ Answers(t)) => response'.status = 404]_vars

\* a step in which POST /cleanup deletes files
Sweeps == exportFiles' # exportFiles /\ response' = response /\ pc' = pc

\* C22: a download of token t and a sweep that removes t, in either order: when the
\* handler finds the file expired, its own sweep removes it before its delete (the
\* second removal, no error: the answer is 200 unless the file name is no header
\* value), the store ends without t and with every other unexpired file as it
\* was, and the payload sent is the stored buffer; when POST /cleanup came first,
\* the answer is 404, nothing is sent and the store is left alone.
C22_DeleteIdempotent ==
    [][/\ \A t \in DownloadTokens :
             Answers(t) =>
                 LET d == response'.fileData IN
                 /\ d = MapGet(exportFiles, t)
                 /\ d = NoFile =>
                        /\ response'.status = 404
                        /\ response'.body = 0
                        /\ exportFiles' = exportFiles
                 /\ (d # NoFile /\ Expired(d, now)) =>
                        /\ MapGet(exportFiles', t) = NoFile
                        /\ exportFiles' = {e \in exportFiles : ~Expired(e, now)}
                        /\ response'.status = 200 => response'.body = d.buffer
                        /\ response'.status # 200 =>
                               response'.body = 0 /\ ~HeaderSafe(d.fileName.name)
       /\ Sweeps => exportFiles' = {e \in exportFiles : ~Expired(e, now)}]_vars

\* C22 witness: a download found its file expired and sent it (its sweep and its
\* delete both removed the token), and another file is still in the store
C22_Witness ==
    /\ response.status = 200
    /\ Expired(response.fileData, response.now)
    /\ MapGet(exportFiles, response.token) = NoFile
    /\ exportFiles # {}

\* the calls of the notifier (updateExportStatus) among what was sent for job j
IsNotification(e) == e \in {"processing", "completed", "failed"}

Notified(j) == SelectSeq(events[j], IsNotification)

\* C23: the notifier calls made for a job are 'processing', once, in the step that
\* starts the job's body, then one of 'completed' and 'failed', once, when the body
\* ends: never a terminal call before 'processing', never both, never one twice;
\* a body that has returned has made exactly the two calls.  (A body that threw at
\* the queue instead of returning has made the 'processing' call alone.)
C23_NotifierAtLifecyclePoints ==
    \A j \in Jobs :
        /\ Notified(j) \in {<<>>, <<"processing">>, <<"processing", "completed">>,
                             <<"processing", "failed">>}
        /\ Notified(j) # <<>> <=> StartCount(j) = 1
        /\ Len(Notified(j)) = 2 <=> pc[j] \in {"completing", "failing"} \/ result[j] = "resolved"
        /\ pc[j] \in {"completing", "completed"} =>
               Notified(j) = <<"processing", "completed">>
        /\ (pc[j] = "failing" \/ (pc[j] = "failed" /\ result[j] = "resolved")) =>
               Notified(j) = <<"processing", "failed">>
        /\ result[j] = "rejected" => Notified(j) = <<"processing">>

\* C23 witness: one job's body has returned after 'completed', another's after
\* 'failed', and a third job that waited behind them is running with its
\* 'processing' call made
C23_Witness ==
    \E j, k, l \in Jobs :
        /\ result[j] = "resolved" /\ Notified(j) = <<"processing", "completed">>
        /\ result[k] = "resolved" /\ Notified(k) = <<"processing", "failed">>
        /\ position[l] >= 2 /\ pc[l] = "assembling" /\ Notified(l) = <<"processing">>

\* the jobs whose body is running
Running == {j \in Jobs : InBody(j)}

\* the jobs that have ended
Ended == {j \in Jobs : pc[j] \in {"completed", "failed"}}

\* C24: the hand-off of a slot in ExportQueue.process is atomic, however the
\* completions of the running jobs interleave: running counts exactly the bodies
\* that are running (a start adds one, a completion takes one off, once), every
\* waiting job is in the queue once and was not started, every job that left the
\* queue was started once, and no job waits while a slot is free.
C24_AtomicHandOff ==
    variant = "pool" =>
        /\ running = Cardinality(Running)
        /\ Len(started) = Cardinality(Running) + Cardinality(Ended)
        /\ \A j \in Jobs :
               /\ pc[j] = "queued" <=> \E i \in DOMAIN queue : queue[i] = j
               /\ Cardinality({i \in DOMAIN queue : queue[i] = j}) <= 1
               /\ pc[j] = "queued" => StartCount(j) = 0
               /\ j \in Running \cup Ended => StartCount(j) = 1
        /\ queue # <<>> => running = maxConcurrent

\* C24 witness: with two slots, the completion of the first job has handed its slot
\* to the third, whose body is at its first await, while the second job, which
\* ran beside the first, is about to complete
C24_Witness ==
    /\ variant = "pool"
    /\ maxConcurrent = 2
    /\ running = 2
    /\ started = <<1, 2, 3>>
    /\ pc[1] \in {"completed", "failed"}
    /\ pc[2] \in {"completing", "failing"}
    /\ pc[3] = "processing"

\* C25: a fetch that never answers does not hold a slot forever: every job whose
\* body was started eventually is completed or failed (and so has released its
\* slot), and every job waiting in the queue is eventually started.
C25_StuckFetchReleased ==
    \A j \in Jobs :
        /\ InBody(j) ~> (pc[j] \in {"completed", "failed"})
        /\ (pc[j] = "queued") ~> (\E i \in DOMAIN started : started[i] = j)

\* C26: when the upload of the finished artifact fails after a successful assembly,
\* the job is failing or failed and never back at the upload (no retry), 'failed'
\* is the one notification after 'processing', 'completed' is never notified, and
\* once the job has ended its promise is resolved and its slot is no longer counted.
C26_UploadFailureFails ==
    \A j \in Jobs :
        failure[j] = "upload" =>
            /\ variant = "pool"
            /\ j \in uploads
            /\ emitted[j] = Plan(variant, req[j])
            /\ pc[j] \in {"failing", "failed"}
            /\ Notified(j) = <<"processing", "failed">>
            /\ \A i \in DOMAIN events[j] : events[j][i] # "completed"
            /\ StartCount(j) = 1
            /\ pc[j] = "failed" =>
                  /\ result[j] = "resolved"
                  /\ running = Cardinality(Running)
                  /\ running <= maxConcurrent

\* a job whose upload failed has ended and the job queued behind it was started
C26_Witness ==
    \E j, k \in Jobs :
        /\ failure[j] = "upload"
        /\ pc[j] = "failed"
        /\ position[k] >= 2
        /\ StartCount(k) = 1
        /\ pc[k] = "uploading"

\* the jobs of one endpoint whose body is in progress
RunningOf(route) == {j \in Running : req[j].route = route}

\* C27: /export and /export-longstrip jobs share one queue and one limit: the
\* running bodies of both kinds together are what the counter counts and never
\* more than maxConcurrent, and the jobs of both kinds are started in the one
\* order in which they were submitted, none while an earlier one still waits.
C27_OneGlobalLimit ==
    /\ Cardinality(RunningOf("export")) + Cardinality(RunningOf("longstrip")) = running
    /\ running <= maxConcurrent
    /\ \A i, k \in DOMAIN started : i < k => started[i] < started[k]
    /\ \A i, k \in DOMAIN queue : i < k => queue[i] < queue[k]
    /\ \A i \in DOMAIN started : \A k \in DOMAIN queue : started[i] < queue[k]
    /\ queue # <<>> => running = maxConcurrent

\* one job of each kind runs, which takes both slots, and a longstrip job waits
\* behind them
C27_Witness ==
    /\ maxConcurrent = 2
    /\ Cardinality(RunningOf("export")) = 1
    /\ Cardinality(RunningOf("longstrip")) = 1
    /\ queue # <<>>
    /\ req[Head(queue)].route = "longstrip"
    /\ started = <<1, 2>>

\* job j's body ends in this step
Completes(j) == InBody(j) /\ pc'[j] \in {"completed", "failed"}

\* job j's body is started in this step
Starts(j) ==
    /\ StartCount(j) = 0
    /\ started' = Append(started, j)
    /\ pc'[j] \in {"processing", "generating"}

\* C28: ExportQueue is work-conserving.  After every step (an add() or a
\* completion by return or by throw) the queue is empty or every slot is taken; a
\* job waits only while maxConcurrent jobs run; a waiting job leaves the queue
\* only in a step in which a running job ends; and a step in which a job ends
\* while jobs wait starts the first of them in the freed slot.
C28_WorkConserving ==
    [][variant = "pool" =>
         /\ queue' = <<>> \/ running' = maxConcurrent
         /\ \A j \in Jobs :
               /\ pc[j] = "queued" => Cardinality(Running) = maxConcurrent
               /\ (pc[j] = "queued" /\ pc'[j] # "queued") =>
                     /\ j = Head(queue)
                     /\ Starts(j)
                     /\ \E k \in Jobs : Completes(k)
               /\ (Completes(j) /\ queue # <<>>) =>
                     /\ Starts(Head(queue))
                     /\ queue' = Tail(queue)
                     /\ running' = running
               /\ (Completes(j) /\ queue = <<>>) =>
                     /\ running' = running - 1
                     /\ started' = started]_vars

\* maxConcurrent is 2 and three jobs were submitted: jobs 1 and 2 run, one of them
\* is about to end, and job 3 waits for the slot
C28_Witness ==
    /\ variant = "pool"
    /\ maxConcurrent = 2
    /\ queue = <<3>>
    /\ started = <<1, 2>>
    /\ pc[1] = "assembling"
    /\ pc[2] \in {"completing", "failing"}

\* C29: in generateCBZ, archive.finalize() is called only when every entry of the
\* plan has been appended, and at most once; the promise is resolved only after
\* finalize() was called; resolve and reject are called at most once between
\* them, and exactly once when the assembly is over; and when the assembly
\* failed, finalize() was never called.
C29_FinalizeThenResolve ==
    \A j \in Jobs :
        req[j].format = "cbz" =>
            LET c == calls[j]
                n == Len(Plan(variant, req[j]))
            IN /\ c.finalize \in {<<>>, <<n>>}
               /\ c.finalize # <<>> => Len(emitted[j]) = n
               /\ c.settle \in {<<>>, <<"resolve">>, <<"reject">>}
               /\ c.settle = <<"resolve">> => c.finalize = <<n>>
               /\ c.settle = <<"reject">> => c.finalize = <<>>
               /\ c.settle = <<"reject">> <=> failure[j] \in {"entry", "throw"}
               /\ pc[j] \in {"uploading", "completing", "completed"} => c.settle = <<"resolve">>
               /\ pc[j] \in {"processing", "queued", "none"} => c = NoCalls

\* an archive of three entries was finalized after the third append and then
\* resolved
C29_Witness ==
    \E j \in Jobs :
        /\ req[j].format = "cbz"
        /\ Len(emitted[j]) = 3
        /\ calls[j].finalize = <<3>>
        /\ calls[j].settle = <<"resolve">>
        /\ pc[j] = "completed"

\* the entries whose download job j has started
Fetched(j) == BagToSet(calls[j].fetch)

\* C30: nothing is retried.  Each entry of a job's plan is downloaded at most once
\* and only once the entries before it are appended, the upload is called at most
\* once, the body is started at most once; and after a failed download or
\* transform, a throw, or a failed upload the job is failing or failed with no
\* download in flight, the downloads stop at the entry that failed, and the
\* upload was called only if it is what failed.
C30_NoRetry ==
    \A j \in Jobs :
        LET n == Len(Plan(variant, req[j]))
            done == Len(emitted[j])
        IN /\ \A k \in Fetched(j) : CopiesIn(k, calls[j].fetch) = 1
           /\ Fetched(j) \in {1..done, 1..(done + 1)}
           /\ fetching[j] # {} => fetching[j] = {done + 1} /\ Fetched(j) = 1..(done + 1)
           /\ Fetched(j) \subseteq 1..n
           /\ calls[j].upload <= 1
           /\ StartCount(j) <= 1
           /\ failure[j] # "none" =>
                 /\ pc[j] \in {"failing", "failed"}
                 /\ fetching[j] = {}
                 /\ calls[j].upload = (IF failure[j] = "upload" THEN 1 ELSE 0)
                 /\ failure[j] = "entry" => Fetched(j) = 1..(done + 1)
                 /\ failure[j] = "throw" => Fetched(j) = 1..done
                 /\ failure[j] = "upload" => Fetched(j) = 1..n /\ done = n

\* the second of three entries failed: the job has ended, the first two entries
\* were downloaded once each, the third never, and nothing was uploaded
C30_Witness ==
    \E j \in Jobs :
        /\ Len(Plan(variant, req[j])) = 3
        /\ failure[j] = "entry"
        /\ pc[j] = "failed"
        /\ Len(emitted[j]) = 1
        /\ Fetched(j) = {1, 2}
        /\ calls[j].upload = 0

\* the file stored under token t is older than the expiry horizon
StoredExpired(t) ==
    MapGet(exportFiles, t) # NoFile /\ Expired(MapGet(exportFiles, t), now)

\* C31: every stored file older than 24h is eventually removed, whether or not
\* anyone downloads or calls cleanup; and a step that sweeps removes exactly the
\* files older than 24h.
C31_ExpiredEventuallyRemoved ==
    /\ \A t \in DownloadTokens : StoredExpired(t) ~> (MapGet(exportFiles, t) = NoFile)
    /\ [][Sweeps => exportFiles' = {e \in exportFiles : ~Expired(e, now)}]_vars

\* C32: the lazy expiry check inside retrieval is observably equivalent to a store
\* that drops each file at the instant it expires: every retrieval is answered
\* with a file exactly when the reference store holds the token, and then with
\* the payload the reference store holds.  (A retrieval that ends in the server
\* error of an invalid header answers neither found nor not-found and is left
\* out of the comparison.)
C32_LazyEqualsPeriodic ==
    [][\A t \in DownloadTokens :
          (Answers(t) /\ response'.status # 500) =>
              /\ response'.status = 200 <=> MapGet(refStore, t) # NoFile
              /\ response'.status = 200 => response'.body = MapGet(refStore, t).buffer]_vars

\* 'completed' is sent for job j in this step
AnnouncesCompleted(j) ==
    /\ events'[j] # events[j]
    /\ events'[j][Len(events'[j])] = "completed"

\* C33 (the server with the file store): a file is put into the store only by the
\* step in which a job's assembly has succeeded, the same step that announces
\* 'completed' with the download link; at the announcement the link's token is in
\* the store with that job's assembled payload; and every file in the store is
\* the payload of a job whose assembly has finished.
C33_StoredBeforeAnnounced ==
    [][/\ \A j \in Jobs :
             AnnouncesCompleted(j) =>
                 LET d == MapGet(exportFiles', Token(req[j].exportId, now)) IN
                 /\ pc[j] = "assembling"
                 /\ d = FileData(j, req[j], now)
                 /\ emitted[j] = Plan(variant, req[j])
                 /\ calls'[j].settle = <<"resolve">>
       /\ \A e \in exportFiles' \ exportFiles :
             /\ e.buffer \in Jobs
             /\ AnnouncesCompleted(e.buffer)
             /\ failure[e.buffer] = "none"
       /\ \A e \in exportFiles' :
             /\ pc'[e.buffer] \in {"completing", "completed"}
             /\ emitted'[e.buffer] = Plan(variant, req[e.buffer])]_vars

\* a job's completion has been announced and its file is in the store, while an
\* earlier job that failed has left no file
C33_Witness ==
    \E j, k \in Jobs :
        /\ pc[j] = "completing"
        /\ \E e \in exportFiles : e.buffer = j /\ e.token[1] = req[j].exportId
        /\ pc[k] = "failed"
        /\ \A e \in exportFiles : e.buffer # k

\* a job that was started later has ended while one started before it still runs
OutOfOrder ==
    \E i, k \in DOMAIN started :
        /\ i < k
        /\ InBody(started[i])
        /\ started[k] \in Ended

\* C34: jobs may end in another order than they were started only where two or
\* more run at once (ExportQueue with maxConcurrent >= 2), and where a later job
\* has ended before an earlier one the queue's bookkeeping is intact: running is
\* the number of started and unfinished jobs, and no job waits beside a free slot
\* (the next waiting job was admitted when the slot was freed).
C34_CompletionOrderFree ==
    OutOfOrder =>
        /\ variant = "pool"
        /\ maxConcurrent >= 2
        /\ running = Cardinality(Running)
        /\ running = Len(started) - Cardinality(Ended)
        /\ running >= 1
        /\ queue = <<>> \/ running = maxConcurrent

\* jobs 1 and 2 were started together, job 2 has ended while job 1 still
\* assembles, and job 3 runs in the slot job 2 gave back
C34_Witness ==
    /\ OutOfOrder
    /\ maxConcurrent = 2
    /\ started = <<1, 2, 3>>
    /\ pc[1] = "assembling"
    /\ pc[2] \in {"completed", "failed"}
    /\ InBody(3)
    /\ running = 2
    /\ queue = <<>>

\* the jobs admitted before job j
AdmittedBefore(j) == {k \in Jobs : k < j /\ position[k] > 0}

\* the jobs that waited ahead of job j when it was submitted: the position[j] - 1
\* jobs admitted last before it
WaitedAhead(j) ==
    {k \in AdmittedBefore(j) :
        Cardinality({l \in AdmittedBefore(j) : l > k}) < position[j] - 1}

\* job j has been started
Started(j) == StartCount(j) = 1

\* what C35 says of the state
PositionStateOk ==
    \A j \in Jobs :
        position[j] > 0 =>
            /\ Cardinality(WaitedAhead(j)) = position[j] - 1
            /\ pc[j] = "queued" =>
                  \E i \in DOMAIN queue :
                      /\ queue[i] = j
                      /\ i = position[j] - Cardinality({k \in WaitedAhead(j) : Started(k)})
            /\ Started(j) =>
                  \A k \in WaitedAhead(j) :
                      \E a, b \in DOMAIN started :
                          a < b /\ started[a] = k /\ started[b] = j

\* C35: the queuePosition in the response to a submission is the number of jobs
\* that wait (admitted and not started) at that moment plus one, none of them
\* started yet; while the job waits its place in the queue is its position less
\* the number of those jobs started since; and it is started only after all of
\* them.  For ExportQueue and for the single-slot queue.
C35_QueuePosition ==
    [][/\ \A j \in Jobs :
             (position[j] = 0 /\ position'[j] > 0) =>
                 /\ position'[j] = Cardinality({k \in Jobs : pc[k] = "queued"}) + 1
                 /\ WaitedAhead(j)' = {k \in Jobs : pc[k] = "queued"}
                 /\ position'[j] > 1 => pc'[j] = "queued"
       /\ PositionStateOk']_vars

\* the third job was told position 2 behind a running and a waiting job and was
\* started after both
C35_Witness ==
    /\ position[3] = 2
    /\ position[2] = 1
    /\ started = <<1, 2, 3>>
    /\ pc[3] = "processing"

\* the request has no page (pages missing or an empty list)
PageSetEmpty(r) == ~r.hasPages \/ Len(r.pages) = 0

\* C36: a request with an exportId is rejected by the validation exactly when it
\* has no page and none of the three covers; a request with no page and a cover is
\* admitted, and when its assembly has succeeded the output holds the covers
\* given and nothing else.
C36_EmptinessValidation ==
    \A j \in Jobs :
        (pc[j] # "none" /\ req[j].exportId # NoId /\ req[j].format \in {"cbz", "pdf"}) =>
            /\ pc[j] = "rejected" <=> (PageSetEmpty(req[j]) /\ req[j].covers = NoCovers)
            /\ (PageSetEmpty(req[j]) /\ pc[j] \in {"uploading", "completing", "completed"}) =>
                  /\ \A i \in DOMAIN emitted[j] : emitted[j][i].num = 0
                  /\ {emitted[j][i].src : i \in DOMAIN emitted[j]}
                        = {req[j].covers.comic_cover, req[j].covers.chapter_cover,
                           req[j].covers.back_cover} \ {NoUrl}

\* every request received so far has been answered and, if admitted, has ended
AllDone == \A j \in Jobs : pc[j] \in {"none", "rejected", "completed", "failed"}

\* C37: ExportQueue.running is never negative, it is the number of jobs whose
\* body was started and has not ended (by return or by throw), and it is 0 again
\* when every submitted job has ended and the queue is empty.
C37_RunningCountsStarted ==
    variant = "pool" =>
        /\ running >= 0
        /\ running =
              Cardinality({j \in Jobs : Started(j) /\ pc[j] \notin {"completed", "failed"}})
        /\ (AllDone /\ queue = <<>>) => running = 0
        /\ AllDone => queue = <<>>

\* every request was received, the jobs have ended, one of them by a throw, and
\* the counter is back at 0
C37_Witness ==
    /\ variant = "pool"
    /\ maxConcurrent = 2
    /\ nsub = MaxJobs
    /\ AllDone
    /\ Len(started) >= 2
    /\ \E j \in Jobs : result[j] = "rejected"
    /\ \E j \in Jobs : result[j] = "resolved"
    /\ running = 0

\* C38: in the single-slot server (exportQueue array and isProcessing flag) at most
\* one task is executing in any state, isProcessing is true exactly while one is,
\* a task waits only while one executes, and the tasks end in the order in which
\* they were submitted: a task is started only when all started before it have
\* ended.
C38_SingleSlot ==
    variant = "single" =>
        /\ Cardinality(Running) <= 1
        /\ isProcessing <=> Running # {}
        /\ queue # <<>> => isProcessing
        /\ \A i, k \in DOMAIN started :
              i < k => /\ started[i] < started[k]
                       /\ started[i] \in Ended

\* two tasks have ended one after the other, one of them by a failure, and the
\* third, which had waited behind them, is executing
C38_Witness ==
    /\ variant = "single"
    /\ started = <<1, 2, 3>>
    /\ pc[1] = "failed"
    /\ pc[2] = "completed"
    /\ pc[3] = "assembling"
    /\ position[3] = 2
    /\ isProcessing

\* the statuses of job j whose notifier call has returned: every status sent,
\* except the one whose call the body still awaits
Returned(j) ==
    IF pc[j] \in {"processing", "completing", "failing"}
    THEN SubSeq(Notified(j), 1, Len(Notified(j)) - 1)
    ELSE Notified(j)

\* the statuses in the sequence s
StatusesOf(s) == {s[i] : i \in 1..Len(s)}

\* C39: a failure of the status notifier changes neither a job's outcome nor the
\* queue.  Whatever calls of updateExportStatus failed, only calls that were made
\* and have returned are recorded as failed, no body ends with an escaped
\* error, the slots in use are exactly those of the running bodies, a job
\* whose 'processing' call failed has gone on to its assembly, a job whose
\* 'completed' call failed has sent no 'failed' and ends completed once its body
\* returned, and a job whose 'failed' call failed ends failed.
C39_NotifierFailureSwallowed ==
    /\ IF variant = "pool"
       THEN running = Cardinality(Running)
       ELSE isProcessing <=> (Running # {})
    /\ \A j \in Jobs :
        LET failedCalls == StatusesOf(notifyErrors[j]) IN
        /\ failedCalls \subseteq StatusesOf(Returned(j))
        /\ Len(notifyErrors[j]) = Cardinality(failedCalls)
        /\ result[j] # "rejected"
        /\ "processing" \in failedCalls =>
               /\ pc[j] \in {"assembling", "uploading", "completing", "failing",
                             "completed", "failed"}
               /\ calls[j].fetch # EmptyBag \/ calls[j].finalize # <<>>
                      \/ failure[j] # "none"
        /\ "completed" \in failedCalls =>
               /\ pc[j] = "completed"
               /\ result[j] = "resolved"
               /\ Notified(j) = <<"processing", "completed">>
               /\ j \notin Running
        /\ "failed" \in failedCalls =>
               /\ pc[j] = "failed"
               /\ result[j] = "resolved"
               /\ Notified(j) = <<"processing", "failed">>
               /\ j \notin Running
        /\ j \in Ended /\ failure[j] = "none" => pc[j] = "completed"

\* a job whose 'processing' and 'completed' calls both failed has ended
\* completed, and a job started after it, whose 'failed' call failed, has ended
\* failed
C39_Witness ==
    \E j, k \in Jobs :
        /\ j < k
        /\ notifyErrors[j] = <<"processing", "completed">>
        /\ pc[j] = "completed"
        /\ notifyErrors[k] = <<"failed">>
        /\ pc[k] = "failed"
        /\ Running = {}

\* C40: POST /clear-files leaves the artifact store as it is and answers 403
\* unless the request supplies the configured admin key, also when no admin key
\* is configured and the request carries no admin_key; with the configured key
\* it removes every artifact and reports the number removed.
C40_ClearFilesGuarded ==
    [][\A admin_key \in AdminKeys :
          ClearFiles(admin_key) =>
              IF ADMIN_KEY # Undefined /\ admin_key = ADMIN_KEY
              THEN /\ exportFiles' = {}
                   /\ clearReply'.status = 200
                   /\ clearReply'.deletedCount = Cardinality(exportFiles)
              ELSE /\ exportFiles' = exportFiles
                   /\ clearReply'.status = 403]_vars

====
